---- MODULE Spec2Model ----
(***************************************************************************)
(* A model of the trading servers of real-time-data-client:                *)
(*   - the venue adapters (brokers/*.py) and the Tool Executor             *)
(*     (execute_tool of multi-broker-trading-server.py and of              *)
(*     alpaca-trading-server.py),                                          *)
(*   - the Conversation Orchestrator (call_ai_with_tools and its four      *)
(*     protocol loops),                                                    *)
(*   - the autotrading start/stop handlers and the worker loop.            *)
(* The specifications share the variables: SpecExec (one execute_tool     *)
(* call), Spec (one orchestration run), SpecAuto (start/stop/worker),      *)
(* SpecLog (the audit log), SpecReinit (initialize during a run),          *)
(* SpecNorm (one normalize_symbol call), SpecFactory (one create_broker   *)
(* call), SpecIter (one iteration of autotrading_loop), SpecTools (one     *)
(* convert_tools_to_openai_format call), SpecChat (the chat endpoint and   *)
(* its history), SpecTrim (chat on a history with tool rounds),            *)
(* SpecPositions (one get_positions call), SpecClose (an order, then       *)
(* close_position), SpecMcp (chat of trading-mcp-client.py), SpecServer    *)
(* (initialize, health, chat and tool calls from the start of a server),   *)
(* SpecAudit (the model call of autotrading iterations and the log).       *)
(***************************************************************************)
EXTENDS Integers, Sequences, FiniteSets, TLC

VARIABLES
    \* ---- one call of a function under check (SpecExec, SpecFactory, SpecTools)
    ex_in,              \* the call: server, broker, tool name, arguments, venue behaviour
    ex_out,             \* its outcome, or NoOutcome before the call
    \* ---- one orchestration run (Spec)
    impl,               \* "multi" (multi-broker-trading-server.py) | "alpaca" (alpaca-trading-server.py)
    broker,             \* the active adapter: "None", "Alpaca", "Binance", "Bybit"
    ai_model,           \* "claude" | "deepseek"
    anthropic_client,   \* TRUE when the Claude client is configured
    openai_client,      \* TRUE when the DeepSeek client is configured
    max_turns,          \* the argument of call_ai_with_tools
    turn_count,         \* loop counter of the protocol loop
    messages,           \* the caller's message list
    openai_messages,    \* alpaca server, DeepSeek: the converted working copy
    model_calls,        \* number of requests sent to the model backend
    executed,           \* ids of the tool calls handed to execute_tool, in order
    next_id,            \* next tool-call id the backend will issue
    pc,                 \* "idle" | "loop" | "done" | "raised"
    retval,             \* value returned by call_ai_with_tools
    exc,                \* exception that ended the run ("none" when there is none)
    last,               \* the most recent turn: response, history and executed lengths before
    \* ---- autotrading (SpecAuto)
    autotrading_active,
    autotrading_config,
    workers,            \* worker thread -> its position in autotrading_loop
    handlers,           \* start request -> its position in start_autotrading
    \* ---- the audit log and its writers (SpecLog)
    autotrading_logs,   \* the list the global names: ids of its entries, oldest first
    writers,            \* thread -> its position in add_autotrading_log and its local slice
    appended,           \* number of entries appended so far (the id of the newest)
    read_len,           \* number of entries in the latest answer of the logs endpoint
    \* ---- re-initialization during a run (SpecReinit)
    run_adapter,        \* the adapter that was active when the run started
    dispatched,         \* the adapters the tool calls of the run were dispatched to
    \* ---- one normalize_symbol call (SpecNorm)
    sym_in,             \* adapter, asset class, symbol
    sym_out,            \* done, once, twice: the symbol normalized once and twice
    \* ---- one iteration of autotrading_loop (SpecIter)
    iter,               \* its inputs, position and effects
    \* ---- the chat endpoint (SpecChat)
    chats_served        \* number of chat requests answered so far

orchVars == <<impl, broker, ai_model, anthropic_client, openai_client, max_turns,
              turn_count, messages, openai_messages, model_calls, executed, next_id,
              pc, retval, exc, last>>
execVars == <<ex_in, ex_out>>
autoVars == <<autotrading_active, autotrading_config, workers, handlers>>
logVars == <<autotrading_logs, writers, appended, read_len>>
reinitVars == <<run_adapter, dispatched>>
normVars == <<sym_in, sym_out>>
iterVars == <<iter>>
chatVars == <<chats_served>>
sideVars == <<logVars, reinitVars, normVars, iterVars, chatVars>>
vars == <<execVars, orchVars, autoVars, sideVars>>

----------------------------------------------------------------------------
(* Bounds of the model *)

MaxTurns == 2       \* max_turns ranges over 0..MaxTurns
MaxCalls == 2       \* tool calls in one model response: 0..MaxCalls
MaxQty == 2         \* quantities and position sizes: up to MaxQty units
MaxStarts == 2      \* start requests served or in progress, hence worker threads spawned

----------------------------------------------------------------------------
(* Python values *)

\* An optional argument: <<>> is None / absent, <<v>> is the value v.
None == <<>>
Some(v) == <<v>>
IsNone(x) == x = <<>>
Val(x) == x[1]
\* Python truthiness of an optional number: None and 0 are false.
Truthy(x) == x # <<>> /\ x[1] # 0

Min(a, b) == IF a < b THEN a ELSE b
Abs(a) == IF a < 0 THEN -a ELSE a

Brokers == {"Alpaca", "Binance", "Bybit"}

----------------------------------------------------------------------------
(* Venue adapters (brokers/*.py).  A method's outcome is                   *)
(*   out      "ok" | "exc" (any Exception) | "notimpl" (NotImplementedError)*)
(*   net      the venue requests issued, in order                          *)
(*   json_ok  whether json.dumps accepts the returned value                *)

Req(ep, side, qty100, lev) == [ep |-> ep, side |-> side, qty100 |-> qty100, lev |-> lev]
SimpleReq(ep) == Req(ep, "-", 0, 0)

\* Issue reqs in order; the fail_at-th request (if any) raises, and the
\* requests after it are never issued.
Issue(reqs, fail_at, json_ok) ==
    IF fail_at \in 1..Len(reqs)
    THEN [out |-> "exc", net |-> SubSeq(reqs, 1, fail_at), json_ok |-> TRUE]
    ELSE [out |-> "ok", net |-> reqs, json_ok |-> json_ok]

NotImplemented == [out |-> "notimpl", net |-> <<>>, json_ok |-> TRUE]
Raises(net) == [out |-> "exc", net |-> net, json_ok |-> TRUE]

supports_crypto_leverage(brk) == brk # "Alpaca"

MaxLevAlpacaStock == 2
MaxLevBinance == 125
MaxLevBybit == 100

get_max_leverage(brk, asset_class) ==
    CASE brk = "Alpaca"  -> IF asset_class = "stock" THEN MaxLevAlpacaStock ELSE 1
      [] brk = "Binance" -> IF asset_class \in {"crypto", "crypto_futures"} THEN MaxLevBinance ELSE 1
      [] brk = "Bybit"   -> IF asset_class \in {"crypto", "crypto_futures"} THEN MaxLevBybit ELSE 1

get_account(brk, env) ==
    CASE brk = "Bybit" -> Issue(<<SimpleReq("wallet_balance"), SimpleReq("spot_account")>>, env.fail_at, TRUE)
      [] OTHER         -> Issue(<<SimpleReq("account")>>, env.fail_at, TRUE)

get_positions(brk, env) == Issue(<<SimpleReq("positions")>>, env.fail_at, TRUE)

\* Binance returns a datetime object as 'timestamp'; Alpaca and Bybit a string.
get_crypto_price(brk, env) == Issue(<<SimpleReq("ticker")>>, env.fail_at, brk # "Binance")

\* Quantity (in hundredths of a unit) that close_position of Binance/Bybit
\* sends for a position of current_qty units.  Before it, a plausible slip:
\* the percentage is taken for a quantity in hundredths.
CloseQty100PercentAsUnits(current_qty, qty, percentage) ==
    IF Truthy(percentage) THEN Min(Val(percentage), current_qty * 100)
    ELSE IF Truthy(qty) THEN Min(Val(qty), current_qty) * 100
    ELSE current_qty * 100
CloseQty100(current_qty, qty, percentage) ==
    IF Truthy(percentage) THEN current_qty * Val(percentage)
    ELSE IF Truthy(qty) THEN Min(Val(qty), current_qty) * 100
    ELSE current_qty * 100

\* env.position is the signed size of the venue's position in the symbol asked
\* for (0: the venue reports no such position).
close_position(brk, qty, percentage, env) ==
    IF brk = "Alpaca"
    THEN Issue(<<Req("close_position", "-",
                     IF Truthy(percentage) THEN Val(percentage)
                     ELSE IF Truthy(qty) THEN Val(qty) * 100 ELSE 0, 0)>>,
               env.fail_at, TRUE)
    ELSE LET fetch == <<SimpleReq("positions")>> IN
         IF env.fail_at = 1 THEN Raises(fetch)
         ELSE IF env.position = 0 THEN Raises(fetch)       \* ValueError: no position found
         ELSE LET current_qty == Abs(env.position)
                  side == IF env.position > 0 THEN "long" ELSE "short"
                  close_side == IF side = "long" THEN "sell" ELSE "buy"
                  order == Req("order", close_side, CloseQty100(current_qty, qty, percentage), 0)
              IN  Issue(fetch \o <<order>>, env.fail_at, TRUE)

place_crypto_order(brk, side, qty, notional, leverage, env) ==
    IF brk = "Alpaca"
    THEN Issue(<<Req("order", side, IF Truthy(notional) THEN 0 ELSE IF IsNone(qty) THEN 0 ELSE Val(qty) * 100, 0)>>,
               env.fail_at, TRUE)
    ELSE LET setlev == IF leverage # 0 /\ leverage > 1
                       THEN <<Req("set_leverage", "-", 0, leverage)>> ELSE <<>>
             price  == IF Truthy(notional) /\ ~Truthy(qty)
                       THEN <<SimpleReq("ticker")>> ELSE <<>>
             order  == Req("order", side,
                           IF Truthy(notional) /\ ~Truthy(qty) THEN Val(notional) * 100
                           ELSE IF IsNone(qty) THEN 0 ELSE Val(qty) * 100, 0)
         IN  Issue(setlev \o price \o <<order>>, env.fail_at, TRUE)

place_stock_order(brk, env) ==
    IF brk = "Alpaca" THEN Issue(<<SimpleReq("stock_order")>>, env.fail_at, TRUE)
    ELSE NotImplemented

\* Alpaca returns quote.timestamp, a datetime object.
get_stock_quote(brk, env) ==
    IF brk = "Alpaca" THEN Issue(<<SimpleReq("stock_quote")>>, env.fail_at, FALSE)
    ELSE NotImplemented

\* Binance returns each bar's 'timestamp' as a datetime object.
get_stock_bars(brk, env) == Issue(<<SimpleReq("bars")>>, env.fail_at, brk # "Binance")

\* Binance returns each order's 'created_at' as a datetime object.
get_orders(brk, env) == Issue(<<SimpleReq("orders")>>, env.fail_at, brk # "Binance")

cancel_order(brk, env) == Issue(<<SimpleReq("cancel_order")>>, env.fail_at, TRUE)

cancel_all_orders(brk, env) == Issue(<<SimpleReq("cancel_all")>>, env.fail_at, TRUE)

\* Alpaca asks the venue's clock and returns its datetime objects; Binance
\* builds datetime objects locally; Bybit returns ISO strings.
get_market_status(brk, env) ==
    CASE brk = "Alpaca"  -> Issue(<<SimpleReq("clock")>>, env.fail_at, FALSE)
      [] brk = "Binance" -> Issue(<<>>, env.fail_at, FALSE)
      [] brk = "Bybit"   -> Issue(<<>>, env.fail_at, TRUE)

----------------------------------------------------------------------------
(* Tool Executor of multi-broker-trading-server.py.                        *)
(* arguments: has_req says whether every key the branch reads with         *)
(* arguments[...] is present; the optional ones are read with .get().      *)

\* A plausible slip: a tool is declared that execute_tool has no branch for.
TOOLSDeclaresSnapshot ==
    {"get_account", "get_all_positions", "close_position", "get_crypto_latest_bar",
     "place_crypto_order", "place_stock_order", "get_stock_quote", "get_stock_bars",
     "get_technical_indicators", "get_orders", "cancel_order", "cancel_all_orders",
     "get_market_clock", "read_trading_memory", "write_trading_memory",
     "append_trading_memory", "clear_trading_memory", "get_stock_snapshot"}

TOOLS == {"get_account", "get_all_positions", "close_position", "get_crypto_latest_bar",
          "place_crypto_order", "place_stock_order", "get_stock_quote", "get_stock_bars",
          "get_technical_indicators", "get_orders", "cancel_order", "cancel_all_orders",
          "get_market_clock", "read_trading_memory", "write_trading_memory",
          "append_trading_memory", "clear_trading_memory"}

Inv(method, lev) == [method |-> method, lev |-> lev]

\* What the body of the try block does: "ok" (returns the adapter's value),
\* "error" (returns an {error: msg} dict itself), "exc" or "notimpl" (raises).
FromAdapter(r, method, lev) ==
    [out |-> r.out, msg |-> "", json_ok |-> r.json_ok, net |-> r.net,
     adapter |-> <<Inv(method, lev)>>]
ErrorDict(msg) == [out |-> "error", msg |-> msg, json_ok |-> TRUE, net |-> <<>>, adapter |-> <<>>]
KeyError == [out |-> "exc", msg |-> "KeyError", json_ok |-> TRUE, net |-> <<>>, adapter |-> <<>>]
IOResult(env) ==
    [out |-> IF env.fail_at = 1 THEN "exc" ELSE "ok", msg |-> "", json_ok |-> TRUE,
     net |-> <<>>, adapter |-> <<>>]

\* A plausible slip: the ceiling itself is refused (>= for >).
LeverageGateRefusesCeiling(brk, leverage) ==
    IF leverage > 1 /\ ~supports_crypto_leverage(brk) THEN "no_leverage_support"
    ELSE IF leverage >= get_max_leverage(brk, "crypto") THEN "max_leverage"
    ELSE "pass"

\* A plausible slip: only the ceiling is checked.
LeverageGateCeilingOnly(brk, leverage) ==
    IF leverage > get_max_leverage(brk, "crypto") THEN "max_leverage" ELSE "pass"

\* The two leverage checks made before place_crypto_order is dispatched.
LeverageGate(brk, leverage) ==
    IF leverage > 1 /\ ~supports_crypto_leverage(brk) THEN "no_leverage_support"
    ELSE IF leverage > get_max_leverage(brk, "crypto") THEN "max_leverage"
    ELSE "pass"

NeedsRequired(tool) ==
    tool \in {"close_position", "get_crypto_latest_bar", "place_crypto_order",
              "place_stock_order", "get_stock_quote", "get_stock_bars",
              "get_technical_indicators", "cancel_order", "write_trading_memory",
              "append_trading_memory"}

Dispatch(brk, tool, args, env) ==
    CASE tool = "get_account" -> FromAdapter(get_account(brk, env), "get_account", 0)
      [] tool = "get_all_positions" -> FromAdapter(get_positions(brk, env), "get_positions", 0)
      [] tool = "close_position" ->
            IF ~args.has_req THEN KeyError
            ELSE FromAdapter(close_position(brk, args.qty, args.percentage, env), "close_position", 0)
      [] tool = "get_crypto_latest_bar" ->
            IF ~args.has_req THEN KeyError
            ELSE FromAdapter(get_crypto_price(brk, env), "get_crypto_price", 0)
      [] tool = "place_crypto_order" ->
            LET leverage == IF IsNone(args.leverage) THEN 1 ELSE Val(args.leverage)
                gate == LeverageGate(brk, leverage)
            IN  IF gate # "pass" THEN ErrorDict(gate)
                ELSE IF ~args.has_req THEN KeyError
                ELSE FromAdapter(place_crypto_order(brk, "buy", args.qty, args.notional, leverage, env),
                                 "place_crypto_order", leverage)
      [] tool = "place_stock_order" ->
            IF ~args.has_req THEN KeyError
            ELSE FromAdapter(place_stock_order(brk, env), "place_stock_order", 0)
      [] tool = "get_stock_quote" ->
            IF ~args.has_req THEN KeyError
            ELSE FromAdapter(get_stock_quote(brk, env), "get_stock_quote", 0)
      [] tool = "get_stock_bars" ->
            IF ~args.has_req THEN KeyError
            ELSE FromAdapter(get_stock_bars(brk, env), "get_stock_bars", 0)
      [] tool = "get_technical_indicators" ->
            \* arguments["symbol"] is read outside the inner try; the inner
            \* except turns every failure into an error dict
            IF ~args.has_req THEN KeyError
            ELSE LET r == FromAdapter(get_stock_bars(brk, env), "get_stock_bars", 0)
                 IN  IF r.out = "ok" THEN [r EXCEPT !.json_ok = TRUE]
                     ELSE [r EXCEPT !.out = "error", !.msg = "technical_analysis_failed"]
      [] tool = "get_orders" -> FromAdapter(get_orders(brk, env), "get_orders", 0)
      [] tool = "cancel_order" ->
            IF ~args.has_req THEN KeyError
            ELSE FromAdapter(cancel_order(brk, env), "cancel_order", 0)
      [] tool = "cancel_all_orders" -> FromAdapter(cancel_all_orders(brk, env), "cancel_all_orders", 0)
      [] tool = "get_market_clock" -> FromAdapter(get_market_status(brk, env), "get_market_status", 0)
      [] tool = "read_trading_memory" -> IOResult(env)
      [] tool = "write_trading_memory" -> IF ~args.has_req THEN KeyError ELSE IOResult(env)
      [] tool = "append_trading_memory" -> IF ~args.has_req THEN KeyError ELSE IOResult(env)
      [] tool = "clear_trading_memory" -> IOResult(env)
      [] OTHER -> ErrorDict("unknown_tool")

\* What execute_tool hands to its caller.
Returned(b, error, msg) ==
    [raised |-> FALSE, error |-> error, msg |-> msg, json_ok |-> (error \/ b.json_ok),
     net |-> b.net, adapter |-> b.adapter]
Propagated(b) ==
    [raised |-> TRUE, error |-> FALSE, msg |-> b.msg, json_ok |-> TRUE,
     net |-> b.net, adapter |-> b.adapter]

\* A plausible slip: only NotImplementedError is handled.
TryExceptNotImplOnly(b) ==
    CASE b.out = "notimpl" -> Returned(b, TRUE, "unsupported_feature")
      [] b.out = "exc"     -> Propagated(b)
      [] b.out = "error"   -> Returned(b, TRUE, b.msg)
      [] OTHER             -> Returned(b, FALSE, "")

\* A plausible slip: no except NotImplementedError clause.
TryExceptGenericOnly(b) ==
    CASE b.out \in {"notimpl", "exc"} -> Returned(b, TRUE, "exception")
      [] b.out = "error"              -> Returned(b, TRUE, b.msg)
      [] OTHER                        -> Returned(b, FALSE, "")

\* try: ... except NotImplementedError ... except Exception ...
TryExcept(b) ==
    CASE b.out = "notimpl" -> Returned(b, TRUE, "unsupported_feature")
      [] b.out = "exc"     -> Returned(b, TRUE, "exception")
      [] b.out = "error"   -> Returned(b, TRUE, b.msg)
      [] OTHER             -> Returned(b, FALSE, "")

execute_tool(brk, tool, args, env) ==
    IF brk = "None"
    THEN Returned(ErrorDict("not_initialized"), TRUE, "not_initialized")
    ELSE TryExcept(Dispatch(brk, tool, args, env))

----------------------------------------------------------------------------
(* Tool Executor of alpaca-trading-server.py: one try block around every   *)
(* branch, each branch calling the alpaca-py clients (one request), and a  *)
(* single except Exception.  Every branch converts timestamps to strings.  *)

ALPACA_TOOLS == TOOLS \cup {"get_stock_snapshot", "get_option_contracts", "place_option_order",
                            "get_option_chain", "place_option_spread", "close_option_position",
                            "get_news", "edit_trading_memory_lines"}

AlpacaMemoryTools == {"read_trading_memory", "write_trading_memory", "append_trading_memory",
                      "edit_trading_memory_lines", "clear_trading_memory"}

AlpacaDispatch(brk, tool, args, env) ==
    IF tool \notin ALPACA_TOOLS THEN ErrorDict("unknown_tool")
    ELSE IF (NeedsRequired(tool) \/ tool = "edit_trading_memory_lines") /\ ~args.has_req THEN KeyError
    ELSE IF tool \in AlpacaMemoryTools
         THEN IF env.fail_at = 1 THEN ErrorDict("memory_failed") ELSE IOResult([env EXCEPT !.fail_at = 0])
    ELSE IF brk = "None" THEN KeyError      \* trading_client is None: AttributeError
    ELSE FromAdapter(Issue(<<SimpleReq(tool)>>, env.fail_at, TRUE), tool, 0)

\* A plausible slip: the except clause re-raises.
AlpacaTryExceptReraise(b) ==
    CASE b.out \in {"exc", "notimpl"} -> Propagated(b)
      [] b.out = "error"              -> Returned(b, TRUE, b.msg)
      [] OTHER                        -> Returned(b, FALSE, "")

AlpacaTryExcept(b) ==
    CASE b.out \in {"exc", "notimpl"} -> Returned(b, TRUE, "exception")
      [] b.out = "error"              -> Returned(b, TRUE, b.msg)
      [] OTHER                        -> Returned(b, FALSE, "")

alpaca_execute_tool(brk, tool, args, env) == AlpacaTryExcept(AlpacaDispatch(brk, tool, args, env))

ExecuteTool(server, brk, tool, args, env) ==
    IF server = "multi" THEN execute_tool(brk, tool, args, env)
    ELSE alpaca_execute_tool(brk, tool, args, env)

----------------------------------------------------------------------------
(* Values the variables of a specification hold while another one runs *)

EmptyResult == [raised |-> FALSE, error |-> FALSE, msg |-> "", json_ok |-> TRUE,
                net |-> <<>>, adapter |-> <<>>]
NoArgs == [has_req |-> TRUE, qty |-> None, percentage |-> None, notional |-> None,
           leverage |-> None]
NoEnv == [fail_at |-> 0, position |-> 0]
NoTurn == [seen |-> FALSE, stop |-> "-", text |-> "", calls |-> <<>>,
           len_before |-> 0, exec_before |-> 0, final |-> FALSE]

ExecIdle ==
    /\ ex_in = [server |-> "multi", brk |-> "None", tool |-> "get_account",
                args |-> NoArgs, env |-> NoEnv]
    /\ ex_out = [done |-> FALSE, res |-> EmptyResult]

OrchIdle ==
    /\ impl = "multi" /\ broker = "None" /\ ai_model = "claude"
    /\ anthropic_client = FALSE /\ openai_client = FALSE
    /\ max_turns = 0 /\ turn_count = 0 /\ messages = <<>> /\ openai_messages = <<>>
    /\ model_calls = 0 /\ executed = <<>> /\ next_id = 1
    /\ pc = "idle" /\ retval = "-" /\ exc = "none" /\ last = NoTurn

AutoIdle ==
    /\ autotrading_active = FALSE /\ autotrading_config = 0
    /\ workers = <<>> /\ handlers = <<>>

Threads == {"chat", "worker"}
NoWriter == [at |-> "idle", local |-> <<>>, calls |-> 0]

LogIdle ==
    /\ autotrading_logs = <<>> /\ writers = [t \in Threads |-> NoWriter]
    /\ appended = 0 /\ read_len = 0

ReinitIdle == run_adapter = "None" /\ dispatched = <<>>

NormIdle ==
    /\ sym_in = [brk |-> "Alpaca", asset_class |-> "stock", symbol |-> <<>>]
    /\ sym_out = [done |-> FALSE, once |-> <<>>, twice |-> <<>>]

NoIter == [at |-> "idle", env |-> <<>>, logs |-> <<>>, model_called |-> FALSE, orders |-> 0,
           slept |-> 0]
IterIdle == iter = NoIter

ChatIdle == chats_served = 0

SideIdle == LogIdle /\ ReinitIdle /\ NormIdle /\ IterIdle /\ ChatIdle

----------------------------------------------------------------------------
(* SpecExec: one execute_tool call on every input of a bounded set *)

Percentages == {0, 50, 100, 150}
Leverages == {0, 1, 2, 10, 100, 101, 125, 126}
FailPoints == 0..3      \* which venue request of the call fails (0: none)

Opt(S) == {None} \cup {Some(v) : v \in S}

ArgsFor(tool) ==
    CASE tool = "close_position" ->
            [has_req : BOOLEAN, qty : Opt(0..MaxQty), percentage : Opt(Percentages),
             notional : {None}, leverage : {None}]
      [] tool = "place_crypto_order" ->
            [has_req : BOOLEAN, qty : Opt({1}), percentage : {None},
             notional : Opt({1}), leverage : Opt(Leverages)]
      [] OTHER ->
            [has_req : BOOLEAN, qty : {None}, percentage : {None},
             notional : {None}, leverage : {None}]

EnvFor(tool) ==
    [fail_at : FailPoints,
     position : IF tool = "close_position" THEN (-MaxQty)..MaxQty ELSE {0}]

ServerBrokers(server) ==
    IF server = "multi" THEN Brokers \cup {"None"} ELSE {"Alpaca", "None"}

ExecToolNames == ALPACA_TOOLS \cup {"no_such_tool"}

InitExec ==
    /\ \E server \in {"multi", "alpaca"} :
       \E brk \in ServerBrokers(server), tool \in ExecToolNames :
       \E args \in ArgsFor(tool), env \in EnvFor(tool) :
            ex_in = [server |-> server, brk |-> brk, tool |-> tool, args |-> args, env |-> env]
    /\ ex_out = [done |-> FALSE, res |-> EmptyResult]
    /\ OrchIdle
    /\ AutoIdle
    /\ SideIdle

ExecCall ==
    /\ ~ex_out.done
    /\ ex_out' = [done |-> TRUE,
                  res |-> ExecuteTool(ex_in.server, ex_in.brk, ex_in.tool, ex_in.args, ex_in.env)]
    /\ UNCHANGED <<ex_in, orchVars, autoVars, sideVars>>

NextExec == ExecCall

SpecExec == InitExec /\ [][NextExec]_vars

\* The body of the try block for the call under execution.
ExecBody ==
    IF ex_in.server = "multi"
    THEN Dispatch(ex_in.brk, ex_in.tool, ex_in.args, ex_in.env)
    ELSE AlpacaDispatch(ex_in.brk, ex_in.tool, ex_in.args, ex_in.env)

\* C3: execute_tool never raises to its caller; whenever the dispatched
\* branch fails (a missing required argument, an exception or
\* NotImplementedError from the adapter, an unknown tool, no broker), the
\* value returned is an {error: message} result.
C3_ExecuteToolNeverRaises ==
    ex_out.done =>
        /\ ~ex_out.res.raised
        /\ (ex_in.brk = "None" /\ ex_in.server = "multi") => ex_out.res.error
        /\ (ex_in.brk # "None" \/ ex_in.server = "alpaca") =>
              (ExecBody.out # "ok" => ex_out.res.error)

\* The adapter raised after it had issued a venue request, and execute_tool
\* returned an error result.
C3_Witness ==
    /\ ex_out.done
    /\ ex_in.server = "multi" /\ ex_in.brk = "Bybit" /\ ex_in.tool = "get_account"
    /\ ex_in.env.fail_at = 2
    /\ ExecBody.out = "exc"
    /\ Len(ex_out.res.net) = 2
    /\ ex_out.res.error /\ ~ex_out.res.raised

IsCryptoOrderCall ==
    /\ ex_out.done
    /\ ex_in.server = "multi" /\ ex_in.brk # "None"
    /\ ex_in.tool = "place_crypto_order"

RequestedLeverage == IF IsNone(ex_in.args.leverage) THEN 1 ELSE Val(ex_in.args.leverage)
Ceiling == get_max_leverage(ex_in.brk, "crypto")

\* C5 as stated: L > C gives an error and neither the adapter nor the venue
\* is reached; L <= C invokes the adapter's place_crypto_order with leverage L.
C5_Original ==
    IsCryptoOrderCall =>
        /\ RequestedLeverage > Ceiling =>
              (ex_out.res.error /\ ex_out.res.adapter = <<>> /\ ex_out.res.net = <<>>)
        /\ RequestedLeverage <= Ceiling =>
              ex_out.res.adapter = <<Inv("place_crypto_order", RequestedLeverage)>>

\* C5 amended: as C5_Original, the second half for calls that carry the
\* required arguments symbol and side; a call without them returns an error
\* and does not reach the adapter either.
C5_LeverageGate ==
    IsCryptoOrderCall =>
        /\ RequestedLeverage > Ceiling =>
              (ex_out.res.error /\ ex_out.res.adapter = <<>> /\ ex_out.res.net = <<>>)
        /\ (RequestedLeverage <= Ceiling /\ ex_in.args.has_req) =>
              ex_out.res.adapter = <<Inv("place_crypto_order", RequestedLeverage)>>
        /\ (RequestedLeverage <= Ceiling /\ ~ex_in.args.has_req) =>
              (ex_out.res.error /\ ex_out.res.adapter = <<>> /\ ex_out.res.net = <<>>)

\* Leverage exactly at the ceiling of Bybit was forwarded: set-leverage then
\* the order were sent.
C5_Witness ==
    /\ IsCryptoOrderCall
    /\ ex_in.brk = "Bybit" /\ RequestedLeverage = Ceiling /\ ex_in.args.has_req
    /\ ex_in.env.fail_at = 0
    /\ ex_out.res.adapter = <<Inv("place_crypto_order", MaxLevBybit)>>
    /\ Len(ex_out.res.net) >= 2
    /\ ex_out.res.net[1].ep = "set_leverage" /\ ex_out.res.net[1].lev = MaxLevBybit

\* C6 as stated: close_position with both qty and percentage given, or with
\* neither, returns a validation error and sends nothing to the venue.
C6_CloseValidation ==
    ( /\ ex_out.done
      /\ ex_in.server = "multi" /\ ex_in.brk # "None"
      /\ ex_in.tool = "close_position" /\ ex_in.args.has_req
      /\ (IsNone(ex_in.args.qty) <=> IsNone(ex_in.args.percentage)) )
    => (ex_out.res.error /\ ex_out.res.net = <<>>)

----------------------------------------------------------------------------
(* Conversation Orchestrator: messages, model responses, tool execution *)

\* A message of the history.  fmt: "str" (content is a string), "blocks"
\* (content is a list of Protocol A blocks), "openai" (a Protocol B message).
\* calls: ids of the tool calls it carries; results: <<[id, content]>>.
Msg(role, fmt, text, calls, results) ==
    [role |-> role, fmt |-> fmt, text |-> text, calls |-> calls, results |-> results]

UserText == Msg("user", "str", "user text", <<>>, <<>>)
AssistantBlocks(text, ids) == Msg("assistant", "blocks", text, ids, <<>>)
\* A plausible slip: only the first tool result is sent back.
UserToolResultsFirstOnly(results) ==
    Msg("user", "blocks", "", <<>>, IF results = <<>> THEN <<>> ELSE <<Head(results)>>)
UserToolResults(results) == Msg("user", "blocks", "", <<>>, results)
OpenAIAssistant(text, ids) == Msg("assistant", "openai", text, ids, <<>>)
ToolMessage(result) == Msg("tool", "openai", "", <<>>, <<result>>)

MAX_TURNS_MULTI == "Max turns reached."
MAX_TURNS_ALPACA == "I've reached the maximum number of conversation turns. Please try again."
NOT_INITIALIZED == "AI client not initialized. Please configure API keys in Settings."

\* The tool calls a model may emit, by what execute_tool makes of them:
\*   account     get_account, the venue answers
\*   account_err get_account, the venue request fails
\*   no_symbol   close_position without the required symbol
\*   clock       get_market_clock (adapters of Alpaca and Binance return datetimes)
\*   bad_json    Protocol B only: the arguments string is not valid JSON
CallKindsA == {"account", "account_err", "no_symbol", "clock"}
CallKindsB == CallKindsA \cup {"bad_json"}

CallTool(kind) ==
    CASE kind \in {"account", "account_err"} -> "get_account"
      [] kind = "no_symbol" -> "close_position"
      [] kind = "clock" -> "get_market_clock"
      [] OTHER -> "get_account"
CallArgs(kind) == [NoArgs EXCEPT !.has_req = (kind # "no_symbol")]
CallEnv(kind) == [NoEnv EXCEPT !.fail_at = IF kind = "account_err" THEN 1 ELSE 0]

\* The tool calls of one response: up to MaxCalls calls, all of kind
\* "account" but at most one, at any position, of another kind.
CallLists(kinds) ==
    {<<>>} \cup {[i \in 1..k |-> IF i = odd THEN kind ELSE "account"] :
                    k \in 1..MaxCalls, odd \in 0..MaxCalls, kind \in kinds}

\* Give the calls of a response the ids the backend issues: first, first+1, ...
WithIds(kinds, first) == [i \in 1..Len(kinds) |-> [id |-> first + i - 1, kind |-> kinds[i]]]
Ids(calls) == [i \in 1..Len(calls) |-> calls[i].id]

\* Protocol A responses: stop_reason, text of the text block ("" when there
\* is none), tool_use blocks.
ClaudeResponses ==
    {r \in [stop : {"end_turn", "tool_use", "max_tokens"}, text : {"", "text"},
            kinds : CallLists(CallKindsA)] :
        /\ r.stop = "end_turn" => r.kinds = <<>>
        /\ r.stop = "tool_use" => r.kinds # <<>>
        /\ r.kinds # <<>> => r.text = "text"}

\* Protocol B responses: finish_reason, message.content ("None" when null),
\* message.tool_calls.
DeepseekResponses ==
    {r \in [stop : {"stop", "tool_calls", "length"}, text : {"None", "text"},
            kinds : CallLists(CallKindsB)] :
        /\ (r.stop = "tool_calls") <=> (r.kinds # <<>>)
        /\ r.kinds # <<>> => r.text = "None"}

\* Content of the tool result fed back: the alpaca server's Claude loop wraps
\* an error result with the tool name and arguments.
ResultContent(server, model, r) ==
    IF ~r.error THEN "value"
    ELSE IF server = "alpaca" /\ model = "claude" THEN "error_with_args"
    ELSE "error"

\* The for loop over the tool calls of one response.  loads: Protocol B
\* parses the arguments with json.loads first.  Every result is serialized
\* with json.dumps before it is appended.  An exception ends the loop at once.
RECURSIVE RunCalls(_, _, _, _, _, _)
RunCalls(server, model, brk, loads, calls, acc) ==
    IF calls = <<>> THEN acc
    ELSE LET c == Head(calls) IN
         IF loads /\ c.kind = "bad_json" THEN [acc EXCEPT !.exc = "json_loads"]
         ELSE LET r == ExecuteTool(server, brk, CallTool(c.kind), CallArgs(c.kind), CallEnv(c.kind))
                  ran == [acc EXCEPT !.executed = Append(@, c.id)]
              IN  IF r.raised THEN [ran EXCEPT !.exc = "execute_tool"]
                  ELSE IF ~r.json_ok THEN [ran EXCEPT !.exc = "json_dumps"]
                  ELSE RunCalls(server, model, brk, loads, Tail(calls),
                                [ran EXCEPT !.results =
                                    Append(@, [id |-> c.id, content |-> ResultContent(server, model, r)])])

NoneRun == [executed |-> <<>>, results |-> <<>>, exc |-> "none"]

ToolMessages(results) == [i \in 1..Len(results) |-> ToolMessage(results[i])]

\* alpaca server, DeepSeek: the conversion of the caller's messages.
RECURSIVE ToOpenAI(_)
ToOpenAI(msgs) ==
    IF msgs = <<>> THEN <<>>
    ELSE LET m == Head(msgs)
             conv ==
                IF m.role = "assistant" /\ m.fmt = "blocks"
                THEN (IF m.text # "" THEN <<Msg("assistant", "str", m.text, <<>>, <<>>)>> ELSE <<>>)
                     \o (IF m.calls # <<>> THEN <<OpenAIAssistant("None", m.calls)>> ELSE <<>>)
                ELSE IF m.role = "user" /\ m.fmt = "blocks"
                THEN ToolMessages(m.results)
                ELSE <<m>>
         IN  conv \o ToOpenAI(Tail(msgs))

\* while turn_count < max_turns / for turn in range(max_turns)
\* Two plausible slips: one iteration too many, one iteration too few.
LoopConditionOffByOne(turn, bound) == turn <= bound
LoopConditionOneShort(turn, bound) == turn + 1 < bound
LoopCondition(turn, bound) == turn < bound

----------------------------------------------------------------------------
(* Spec: one run of call_ai_with_tools *)

\* The history the protocol loop works on and sends to the model.
History == IF impl = "alpaca" /\ ai_model = "deepseek" THEN openai_messages ELSE messages

\* A chat history of the alpaca server left by an earlier Claude run: the
\* request, one tool round, the final text, and the new request.
PriorExchange ==
    <<UserText, AssistantBlocks("text", <<1>>),
      UserToolResults(<<[id |-> 1, content |-> "value"]>>),
      AssistantBlocks("text", <<>>), UserText>>

InitialMessages(server, model) ==
    IF server = "multi" THEN {<<UserText, UserText>>}
    ELSE IF model = "claude" THEN {<<UserText>>, PriorExchange}
    ELSE {<<UserText>>}

\* (ai_model, anthropic_client, openai_client) as initialize can leave them
Configs(server) ==
    IF server = "multi"
    THEN {<<"claude", TRUE, FALSE>>, <<"deepseek", FALSE, TRUE>>,
          <<"claude", FALSE, FALSE>>, <<"deepseek", TRUE, FALSE>>}
    ELSE {<<"claude", TRUE, FALSE>>, <<"deepseek", FALSE, TRUE>>}

InitOrch ==
    /\ impl \in {"multi", "alpaca"}
    /\ broker = IF impl = "multi" THEN "Binance" ELSE "Alpaca"
    /\ \E c \in Configs(impl) :
          ai_model = c[1] /\ anthropic_client = c[2] /\ openai_client = c[3]
    /\ max_turns \in 0..MaxTurns
    /\ messages \in InitialMessages(impl, ai_model)
    /\ openai_messages = <<>>
    /\ turn_count = 0 /\ model_calls = 0 /\ executed = <<>>
    /\ next_id = 2
    /\ pc = "idle" /\ retval = "-" /\ exc = "none" /\ last = NoTurn
    /\ ExecIdle
    /\ AutoIdle
    /\ SideIdle

orchConfig == <<impl, broker, ai_model, anthropic_client, openai_client, max_turns>>

CallAiWithTools ==
    /\ pc = "idle"
    /\ IF impl = "multi"
       THEN IF \/ ai_model = "claude" /\ anthropic_client
               \/ ai_model = "deepseek" /\ openai_client
            THEN pc' = "loop" /\ UNCHANGED <<retval, openai_messages>>
            ELSE pc' = "done" /\ retval' = NOT_INITIALIZED /\ UNCHANGED openai_messages
       ELSE /\ pc' = "loop"
            /\ openai_messages' = IF ai_model = "deepseek" THEN ToOpenAI(messages) ELSE openai_messages
            /\ UNCHANGED retval
    /\ UNCHANGED <<orchConfig, turn_count, messages, model_calls, executed, next_id, exc, last>>
    /\ UNCHANGED <<execVars, autoVars, sideVars>>

Turn(resp, calls, sent, final) ==
    [seen |-> TRUE, stop |-> resp.stop, text |-> resp.text, calls |-> calls,
     len_before |-> Len(sent), exec_before |-> Len(executed), final |-> final]

\* multi-broker-trading-server.py, _call_claude_with_tools: one loop iteration
ClaudeTurnMulti ==
    /\ pc = "loop" /\ impl = "multi" /\ ai_model = "claude"
    /\ LoopCondition(turn_count, max_turns)
    /\ \E resp \in ClaudeResponses :
        LET calls == WithIds(resp.kinds, next_id)
            run == RunCalls("multi", "claude", broker, FALSE, calls, NoneRun)
            assistant == Msg("assistant", "blocks", resp.text, Ids(calls), <<>>)
        IN  /\ turn_count' = turn_count + 1
            /\ model_calls' = model_calls + 1
            /\ next_id' = next_id + Len(calls)
            /\ last' = Turn(resp, calls, messages, resp.stop = "end_turn")
            /\ CASE resp.stop = "end_turn" ->
                      /\ pc' = "done" /\ retval' = resp.text
                      /\ UNCHANGED <<messages, executed, exc>>
                 [] resp.stop = "tool_use" ->
                      /\ executed' = executed \o run.executed
                      /\ IF run.exc = "none"
                         THEN /\ messages' = messages \o <<assistant, UserToolResults(run.results)>>
                              /\ UNCHANGED <<pc, retval, exc>>
                         ELSE /\ messages' = Append(messages, assistant)
                              /\ pc' = "raised" /\ exc' = run.exc
                              /\ UNCHANGED retval
                 [] OTHER -> UNCHANGED <<messages, executed, pc, retval, exc>>
    /\ UNCHANGED <<orchConfig, openai_messages, execVars, autoVars, sideVars>>

\* multi-broker-trading-server.py, _call_deepseek_with_tools: one loop iteration
DeepseekTurnMulti ==
    /\ pc = "loop" /\ impl = "multi" /\ ai_model = "deepseek"
    /\ LoopCondition(turn_count, max_turns)
    /\ \E resp \in DeepseekResponses :
        LET calls == WithIds(resp.kinds, next_id)
            run == RunCalls("multi", "deepseek", broker, TRUE, calls, NoneRun)
        IN  /\ turn_count' = turn_count + 1
            /\ model_calls' = model_calls + 1
            /\ next_id' = next_id + Len(calls)
            /\ last' = Turn(resp, calls, messages, calls = <<>>)
            /\ IF calls = <<>>
               THEN /\ pc' = "done" /\ retval' = resp.text
                    /\ UNCHANGED <<messages, executed, exc>>
               ELSE /\ messages' = Append(messages, OpenAIAssistant(resp.text, Ids(calls)))
                                      \o ToolMessages(run.results)
                    /\ executed' = executed \o run.executed
                    /\ IF run.exc = "none"
                       THEN UNCHANGED <<pc, retval, exc>>
                       ELSE pc' = "raised" /\ exc' = run.exc /\ UNCHANGED retval
    /\ UNCHANGED <<orchConfig, openai_messages, execVars, autoVars, sideVars>>

\* alpaca-trading-server.py, _call_claude_with_tools: one loop iteration
ClaudeTurnAlpaca ==
    /\ pc = "loop" /\ impl = "alpaca" /\ ai_model = "claude"
    /\ LoopCondition(turn_count, max_turns)
    /\ \E resp \in ClaudeResponses :
        LET calls == WithIds(resp.kinds, next_id)
            run == RunCalls("alpaca", "claude", broker, FALSE, calls, NoneRun)
            has_tool_use == calls # <<>>
        IN  /\ turn_count' = turn_count + 1
            /\ model_calls' = model_calls + 1
            /\ next_id' = next_id + Len(calls)
            /\ last' = Turn(resp, calls, messages, ~has_tool_use)
            /\ executed' = executed \o run.executed
            /\ IF run.exc # "none"
               THEN pc' = "raised" /\ exc' = run.exc /\ UNCHANGED <<messages, retval>>
               ELSE IF has_tool_use /\ run.results # <<>>
               THEN /\ messages' = messages \o <<AssistantBlocks(resp.text, Ids(calls)),
                                                 UserToolResults(run.results)>>
                    /\ UNCHANGED <<pc, retval, exc>>
               ELSE /\ messages' = Append(messages, AssistantBlocks(resp.text, Ids(calls)))
                    /\ pc' = "done" /\ retval' = resp.text
                    /\ UNCHANGED exc
    /\ UNCHANGED <<orchConfig, openai_messages, execVars, autoVars, sideVars>>

\* alpaca-trading-server.py, _call_deepseek_with_tools: one loop iteration
DeepseekTurnAlpaca ==
    /\ pc = "loop" /\ impl = "alpaca" /\ ai_model = "deepseek"
    /\ LoopCondition(turn_count, max_turns)
    /\ \E resp \in DeepseekResponses :
        LET calls == WithIds(resp.kinds, next_id)
            run == RunCalls("alpaca", "deepseek", broker, TRUE, calls, NoneRun)
        IN  /\ turn_count' = turn_count + 1
            /\ model_calls' = model_calls + 1
            /\ next_id' = next_id + Len(calls)
            /\ last' = Turn(resp, calls, openai_messages, calls = <<>>)
            /\ IF calls # <<>>
               THEN /\ openai_messages' = Append(openai_messages, OpenAIAssistant(resp.text, Ids(calls)))
                                             \o ToolMessages(run.results)
                    /\ executed' = executed \o run.executed
                    /\ IF run.exc = "none"
                       THEN UNCHANGED <<pc, retval, exc>>
                       ELSE pc' = "raised" /\ exc' = run.exc /\ UNCHANGED retval
               ELSE /\ pc' = "done"
                    /\ retval' = IF resp.text = "None" THEN "" ELSE resp.text
                    /\ UNCHANGED <<openai_messages, executed, exc>>
    /\ UNCHANGED <<orchConfig, messages, execVars, autoVars, sideVars>>

\* The request to the model backend raises (network, authentication, ...).
ModelCallFails ==
    /\ pc = "loop"
    /\ LoopCondition(turn_count, max_turns)
    /\ turn_count' = turn_count + 1
    /\ model_calls' = model_calls + 1
    /\ pc' = "raised" /\ exc' = "api"
    /\ last' = [NoTurn EXCEPT !.stop = "api_error",
                              !.len_before = Len(History), !.exec_before = Len(executed)]
    /\ UNCHANGED <<orchConfig, messages, openai_messages, executed, next_id, retval>>
    /\ UNCHANGED <<execVars, autoVars, sideVars>>

\* The loop ends without a return: the advisory string.
MaxTurnsReached ==
    /\ pc = "loop"
    /\ ~LoopCondition(turn_count, max_turns)
    /\ pc' = "done"
    /\ retval' = IF impl = "multi" THEN MAX_TURNS_MULTI ELSE MAX_TURNS_ALPACA
    /\ UNCHANGED <<orchConfig, turn_count, messages, openai_messages, model_calls, executed,
                   next_id, exc, last>>
    /\ UNCHANGED <<execVars, autoVars, sideVars>>

Next ==
    \/ CallAiWithTools
    \/ ClaudeTurnMulti
    \/ DeepseekTurnMulti
    \/ ClaudeTurnAlpaca
    \/ DeepseekTurnAlpaca
    \/ ModelCallFails
    \/ MaxTurnsReached

Spec == InitOrch /\ [][Next]_vars

----------------------------------------------------------------------------
(* Properties of the orchestrator *)

ClientReady ==
    \/ impl = "alpaca"
    \/ ai_model = "claude" /\ anthropic_client
    \/ ai_model = "deepseek" /\ openai_client

Advisory == IF impl = "multi" THEN MAX_TURNS_MULTI ELSE MAX_TURNS_ALPACA

\* The model is about to be called with History.
AboutToCallModel == pc = "loop" /\ turn_count < max_turns

\* Ids of the tool results carried by the messages h[from], h[from+1], ...
\* up to the first message that carries none.
RECURSIVE Answers(_, _)
Answers(h, from) ==
    IF from > Len(h) \/ h[from].results = <<>> THEN <<>>
    ELSE [i \in 1..Len(h[from].results) |-> h[from].results[i].id] \o Answers(h, from + 1)

\* Every tool call is carried by an assistant message that is followed by
\* exactly one result per call, same ids, same order; no result stands alone.
WellFormed(h) ==
    /\ \A i \in 1..Len(h) :
          h[i].calls # <<>> => h[i].role = "assistant" /\ Answers(h, i + 1) = h[i].calls
    /\ \A i \in 1..Len(h) :
          h[i].results # <<>> =>
              \E j \in 1..(i - 1) :
                  /\ h[j].calls # <<>>
                  /\ \A m \in (j + 1)..(i - 1) : h[m].results # <<>>

\* C1: whatever the model answers, a run makes at most max_turns model
\* calls (one per loop iteration) and can always take its next step until
\* it has ended.
C1_TerminatesWithinMaxTurns ==
    /\ model_calls <= max_turns
    /\ model_calls = turn_count
    /\ (pc \in {"idle", "loop"} => ENABLED Next)

\* A run whose model asked for tools on every one of MaxTurns turns has ended.
C1_Witness ==
    /\ pc = "done" /\ max_turns = MaxTurns /\ model_calls = max_turns
    /\ max_turns >= 2 /\ Len(executed) >= max_turns /\ last.calls # <<>>

\* C2 as stated: the calls c1..ck of a turn are each executed once, in order,
\* and k results with the ids of c1..ck, in order, are appended.
C2_CallsAnsweredInOrder ==
    (last.seen /\ last.calls # <<>>) =>
        /\ SubSeq(executed, last.exec_before + 1, Len(executed)) = Ids(last.calls)
        /\ Answers(History, last.len_before + 2) = Ids(last.calls)

\* C4 as stated: no tool call ends the run with an exception.
C4_ToolCallNeverEndsRun == exc \in {"none", "api"}

\* C7: a run that ends without a final response returns the server's fixed
\* advisory string, with no exception, after exactly max_turns model calls,
\* and a run that has returned takes no further step.
C7_AdvisoryAtTurnBound ==
    /\ (pc = "done" /\ ClientReady /\ ~last.final) =>
          (retval = Advisory /\ exc = "none" /\ model_calls = max_turns)
    /\ (pc = "done" => ~ENABLED Next)

\* The alpaca server's run used up a positive number of turns.
C7_Witness ==
    /\ pc = "done" /\ impl = "alpaca" /\ retval = MAX_TURNS_ALPACA
    /\ max_turns >= 1 /\ model_calls = max_turns /\ last.seen /\ ~last.final

\* C8 as stated: after a response without a tool invocation the run has
\* returned that response's text (a null content may come back as "").
C8_NoToolResponseIsFinal ==
    (last.seen /\ last.calls = <<>>) =>
        (pc = "done" /\ (last.text # "None" => retval = last.text))

----------------------------------------------------------------------------
(* SpecAuto: the autotrading switch, its request handlers and its workers *)

\* request.json of a start request: the check interval it asks for
Intervals == {30, 60}

\* The checks start_autotrading makes before it reads the flag: the alpaca
\* server wants the AI client of the selected model, both want a venue.
StartPreconditions ==
    /\ impl = "alpaca" => \/ ai_model = "deepseek" /\ openai_client
                          \/ ai_model = "claude" /\ anthropic_client
    /\ broker # "None"

Running(w) == workers[w] \in {"run", "except", "sleep"}

ModelClientConfigured ==
    \/ ai_model = "claude" /\ anthropic_client
    \/ ai_model = "deepseek" /\ openai_client

\* while autotrading_active: where the worker goes from the loop test.
\* Before it, a plausible slip: the loop never looks at the flag.
WhileTestIgnoresFlag(active) == "run"
WhileTest(active) == IF active THEN "run" ELSE "ended"

\* try / except Exception around the body of an iteration: where the worker
\* goes when the body ends.  Before it, a plausible slip: the exception
\* leaves the loop.
AfterIterationDiesOnError(raised) == IF raised THEN "ended" ELSE "sleep"
AfterIteration(raised) == IF raised THEN "except" ELSE "sleep"

InitAuto ==
    /\ impl \in {"multi", "alpaca"}
    /\ broker \in (IF impl = "multi" THEN {"None", "Binance"} ELSE {"None", "Alpaca"})
    /\ ai_model = "claude" /\ anthropic_client \in BOOLEAN /\ openai_client = FALSE
    /\ max_turns = 0 /\ turn_count = 0 /\ messages = <<>> /\ openai_messages = <<>>
    /\ model_calls = 0 /\ executed = <<>> /\ next_id = 1
    /\ pc = "idle" /\ retval = "-" /\ exc = "none" /\ last = NoTurn
    /\ ExecIdle
    /\ AutoIdle
    /\ SideIdle

\* start_autotrading up to the test of autotrading_active: the request is
\* refused (400) or goes on to the assignments.
StartCheck ==
    /\ Len(handlers) < MaxStarts
    /\ \E interval \in Intervals :
          handlers' = Append(handlers,
              [at |-> IF StartPreconditions /\ ~autotrading_active THEN "passed" ELSE "refused",
               interval |-> interval])
    /\ UNCHANGED <<autotrading_active, autotrading_config, workers>>
    /\ UNCHANGED <<execVars, orchVars, sideVars>>

\* start_autotrading from autotrading_config = data to Thread.start()
StartCommit(h) ==
    /\ handlers[h].at = "passed"
    /\ autotrading_config' = handlers[h].interval
    /\ autotrading_active' = TRUE
    /\ workers' = Append(workers, "check")
    /\ handlers' = [handlers EXCEPT ![h].at = "started"]
    /\ UNCHANGED <<execVars, orchVars, sideVars>>

\* stop_autotrading: clears the flag, or is refused when it is clear
StopAutotrading ==
    /\ autotrading_active
    /\ autotrading_active' = FALSE
    /\ UNCHANGED <<autotrading_config, workers, handlers>>
    /\ UNCHANGED <<execVars, orchVars, sideVars>>

\* autotrading_loop: while autotrading_active
WorkerCheck(w) ==
    /\ workers[w] = "check"
    /\ workers' = [workers EXCEPT ![w] = WhileTest(autotrading_active)]
    /\ UNCHANGED <<autotrading_active, autotrading_config, handlers>>
    /\ UNCHANGED <<execVars, orchVars, sideVars>>

\* autotrading_loop: the body of one iteration (context assembly, the model
\* call, handling the reply), up to its time.sleep or to an exception
WorkerIterate(w) ==
    /\ workers[w] = "run"
    /\ \E raised \in BOOLEAN : workers' = [workers EXCEPT ![w] = AfterIteration(raised)]
    /\ UNCHANGED <<autotrading_active, autotrading_config, handlers>>
    /\ UNCHANGED <<execVars, orchVars, sideVars>>

\* autotrading_loop: the except clause logs the error and goes to sleep
WorkerRecover(w) ==
    /\ workers[w] = "except"
    /\ workers' = [workers EXCEPT ![w] = "sleep"]
    /\ UNCHANGED <<autotrading_active, autotrading_config, handlers>>
    /\ UNCHANGED <<execVars, orchVars, sideVars>>

\* autotrading_loop: time.sleep returns
WorkerWake(w) ==
    /\ workers[w] = "sleep"
    /\ workers' = [workers EXCEPT ![w] = "check"]
    /\ UNCHANGED <<autotrading_active, autotrading_config, handlers>>
    /\ UNCHANGED <<execVars, orchVars, sideVars>>

NextAuto ==
    \/ StartCheck
    \/ \E h \in 1..Len(handlers) : StartCommit(h)
    \/ StopAutotrading
    \/ \E w \in 1..Len(workers) : WorkerCheck(w)
    \/ \E w \in 1..Len(workers) : WorkerIterate(w)
    \/ \E w \in 1..Len(workers) : WorkerRecover(w)
    \/ \E w \in 1..Len(workers) : WorkerWake(w)

SpecAuto == InitAuto /\ [][NextAuto]_vars

\* The threads are scheduled, time.sleep returns and an iteration ends.
WorkerStep(w) ==
    /\ w \in DOMAIN workers
    /\ (WorkerCheck(w) \/ WorkerIterate(w) \/ WorkerRecover(w) \/ WorkerWake(w))

SpecAutoFair == SpecAuto /\ \A w \in 1..MaxStarts : WF_vars(WorkerStep(w))

\* C10 as stated: at most one worker loop is inside an iteration or its
\* sleep at any time.
C10_AtMostOneWorker ==
    Cardinality({w \in 1..Len(workers) : Running(w)}) <= 1

----------------------------------------------------------------------------
(* Properties of close_position on the venues that compute the quantity *)

\* A close_position tool call that reached the order request of Binance or
\* Bybit: the venue reported a position and answered every request.
IsCloseOrderSent ==
    /\ ex_out.done
    /\ ex_in.server = "multi" /\ ex_in.brk \in {"Binance", "Bybit"}
    /\ ex_in.tool = "close_position" /\ ex_in.args.has_req
    /\ Len(ex_out.res.net) = 2 /\ ex_out.res.net[2].ep = "order"

CloseOrder == ex_out.res.net[2]

C20_CloseQuantityWithinPosition ==
    IsCloseOrderSent =>
        (CloseOrder.qty100 > 0 /\ CloseOrder.qty100 <= Abs(ex_in.env.position) * 100)

----------------------------------------------------------------------------
(* Properties of the autotrading switch *)

\* C11: a stop request changes no worker's position; an iteration in flight
\* goes on to its sleep or its except clause whatever the flag is; a worker
\* that tests a cleared flag begins no iteration; and while the flag stays
\* cleared every worker eventually leaves its loop.
C11_StopLetsIterationFinish ==
    /\ [][(autotrading_active /\ ~autotrading_active') => workers' = workers]_vars
    /\ [][\A w \in DOMAIN workers :
            workers[w] = "run" => workers'[w] \in {"run", "sleep", "except"}]_vars
    /\ [][\A w \in DOMAIN workers :
            (workers[w] = "check" /\ ~autotrading_active) => workers'[w] \in {"check", "ended"}]_vars
    /\ \A w \in 1..MaxStarts :
            (w \in DOMAIN workers /\ ~autotrading_active)
                ~> ((w \in DOMAIN workers /\ workers[w] = "ended") \/ autotrading_active)

\* Autotrading was started once and stopped, and its worker has left the loop.
C11_Witness ==
    /\ ~autotrading_active /\ Len(workers) = 1 /\ workers[1] = "ended"
    /\ \A h \in DOMAIN handlers : handlers[h].at # "passed"

\* C12 as stated: a start request goes on to start a worker only when a
\* venue and a model client are configured.
C12_StartRejectedUnlessConfigured ==
    \A h \in DOMAIN handlers :
        handlers[h].at # "refused" => (broker # "None" /\ ModelClientConfigured)

\* C15: a worker leaves its loop only from the loop test with the flag
\* cleared; from the except clause it goes to sleep and on to the loop test.
C15_LoopEndsOnlyOnStop ==
    /\ [][\A w \in DOMAIN workers :
            (workers[w] # "ended" /\ workers'[w] = "ended")
                => (workers[w] = "check" /\ ~autotrading_active)]_vars
    /\ [][\A w \in DOMAIN workers :
            workers[w] = "except" => workers'[w] \in {"except", "sleep"}]_vars

\* An iteration has raised while autotrading is active.
C15_Witness == autotrading_active /\ \E w \in DOMAIN workers : workers[w] = "except"

----------------------------------------------------------------------------
(* SpecLog: add_autotrading_log called from two threads, and the logs endpoint *)

LOG_CAPACITY == 500     \* if len(autotrading_logs) > 500
LOGS_RETURNED == 200    \* alpaca server: autotrading_logs[-200:]
MaxAppends == 2         \* add_autotrading_log calls each thread makes

\* autotrading_logs[-n:]
LastEntries(log, n) == IF Len(log) <= n THEN log ELSE SubSeq(log, Len(log) - n + 1, Len(log))

\* A log of k entries as k calls on an empty log leave it.
LogOf(k) == [i \in 1..k |-> i]

\* Number of calls a thread has begun.
Calls(t) == writers[t].calls

InitLog ==
    /\ impl \in {"multi", "alpaca"}
    /\ broker = "None" /\ ai_model = "claude"
    /\ anthropic_client = FALSE /\ openai_client = FALSE
    /\ max_turns = 0 /\ turn_count = 0 /\ messages = <<>> /\ openai_messages = <<>>
    /\ model_calls = 0 /\ executed = <<>> /\ next_id = 1
    /\ pc = "idle" /\ retval = "-" /\ exc = "none" /\ last = NoTurn
    /\ ExecIdle /\ AutoIdle /\ ReinitIdle /\ NormIdle /\ IterIdle /\ ChatIdle
    /\ \E k \in {0, LOG_CAPACITY - 2, LOG_CAPACITY - 1, LOG_CAPACITY} :
          autotrading_logs = LogOf(k) /\ appended = k
    /\ writers = [t \in Threads |-> NoWriter]
    /\ read_len = 0

\* autotrading_logs.append(log_entry)
LogAppend(t) ==
    /\ writers[t].at = "idle" /\ Calls(t) < MaxAppends
    /\ appended' = appended + 1
    /\ autotrading_logs' = Append(autotrading_logs, appended + 1)
    /\ writers' = [writers EXCEPT ![t].at = "test", ![t].calls = @ + 1]
    /\ UNCHANGED read_len
    /\ UNCHANGED <<execVars, orchVars, autoVars, reinitVars, normVars, iterVars, chatVars>>

\* if len(autotrading_logs) > 500
LogTest(t) ==
    /\ writers[t].at = "test"
    /\ writers' = [writers EXCEPT
                     ![t].at = IF Len(autotrading_logs) > LOG_CAPACITY THEN "slice" ELSE "idle"]
    /\ UNCHANGED <<autotrading_logs, appended, read_len>>
    /\ UNCHANGED <<execVars, orchVars, autoVars, reinitVars, normVars, iterVars, chatVars>>

\* the right-hand side autotrading_logs[-500:]: a new list
LogSlice(t) ==
    /\ writers[t].at = "slice"
    /\ writers' = [writers EXCEPT ![t].at = "store",
                                  ![t].local = LastEntries(autotrading_logs, LOG_CAPACITY)]
    /\ UNCHANGED <<autotrading_logs, appended, read_len>>
    /\ UNCHANGED <<execVars, orchVars, autoVars, reinitVars, normVars, iterVars, chatVars>>

\* autotrading_logs = <the new list>
LogStore(t) ==
    /\ writers[t].at = "store"
    /\ autotrading_logs' = writers[t].local
    /\ writers' = [writers EXCEPT ![t].at = "idle", ![t].local = <<>>]
    /\ UNCHANGED <<appended, read_len>>
    /\ UNCHANGED <<execVars, orchVars, autoVars, reinitVars, normVars, iterVars, chatVars>>

\* GET /api/autotrading/logs, served by a request thread of its own
ReadLogs ==
    /\ read_len' = IF impl = "multi" THEN Len(autotrading_logs)
                   ELSE Len(LastEntries(autotrading_logs, LOGS_RETURNED))
    /\ read_len' # read_len
    /\ UNCHANGED <<autotrading_logs, writers, appended>>
    /\ UNCHANGED <<execVars, orchVars, autoVars, reinitVars, normVars, iterVars, chatVars>>

NextLog ==
    \/ \E t \in Threads : LogAppend(t)
    \/ \E t \in Threads : LogTest(t)
    \/ \E t \in Threads : LogSlice(t)
    \/ \E t \in Threads : LogStore(t)
    \/ ReadLogs

SpecLog == InitLog /\ [][NextLog]_vars

\* C13 as stated: the log, and what a reader gets of it, never holds more
\* than LOG_CAPACITY entries.
C13_LogWithinCapacity ==
    Len(autotrading_logs) <= LOG_CAPACITY /\ read_len <= LOG_CAPACITY

\* C14 as stated: the log holds the newest entries, each once, in the order
\* they were appended: the ids appended - Len + 1 .. appended.
C14_NoEntryLost ==
    autotrading_logs = [i \in 1..Len(autotrading_logs) |->
                            appended - Len(autotrading_logs) + i]

----------------------------------------------------------------------------
(* SpecReinit: /api/initialize served while a chat run is in progress *)
(* (multi-broker-trading-server.py)                                        *)

BrokerTypes == {"alpaca", "bybit", "binance", "kraken"}

\* BrokerFactory.create_broker: the adapter for a broker type
create_broker(broker_type) ==
    CASE broker_type = "alpaca"  -> "Alpaca"
      [] broker_type = "bybit"   -> "Bybit"
      [] broker_type = "binance" -> "Binance"
      [] OTHER                   -> "None"      \* ValueError

InitReinit ==
    /\ impl = "multi" /\ broker = "None" /\ ai_model = "claude"
    /\ anthropic_client = FALSE /\ openai_client = FALSE
    /\ max_turns = 0 /\ turn_count = 0 /\ messages = <<>> /\ openai_messages = <<>>
    /\ model_calls = 0 /\ executed = <<>> /\ next_id = 1
    /\ pc = "idle" /\ retval = "-" /\ exc = "none" /\ last = NoTurn
    /\ ExecIdle /\ AutoIdle /\ SideIdle

\* initialize: takes no lock and looks at no run in progress.  A request
\* for an unsupported broker or without broker keys is answered 400 and
\* changes nothing.
Initialize ==
    \E broker_type \in BrokerTypes, broker_keys \in BOOLEAN,
       selected_model \in {"claude", "deepseek"}, ai_key \in BOOLEAN :
        /\ broker_type \in {"alpaca", "bybit", "binance"}
        /\ broker_keys
        /\ broker' = create_broker(broker_type)
        /\ ai_model' = selected_model
        /\ anthropic_client' = (anthropic_client \/ (selected_model = "claude" /\ ai_key))
        /\ openai_client' = (openai_client \/ (selected_model = "deepseek" /\ ai_key))
        /\ messages' = <<>>
        /\ UNCHANGED <<impl, max_turns, turn_count, openai_messages, model_calls,
                       executed, next_id, pc, retval, exc, last>>
        /\ UNCHANGED <<execVars, autoVars, logVars, reinitVars, normVars, iterVars, chatVars>>

\* chat: the broker test, then call_ai_with_tools
ChatBegin ==
    /\ pc = "idle" /\ broker # "None"
    /\ pc' = "loop"
    /\ run_adapter' = broker /\ dispatched' = <<>>
    /\ UNCHANGED <<orchConfig, turn_count, messages, openai_messages, model_calls,
                   executed, next_id, retval, exc, last>>
    /\ UNCHANGED <<execVars, autoVars, logVars, normVars, iterVars, chatVars>>

\* a tool call of the run: execute_tool reads the global broker
ChatToolCall ==
    /\ pc = "loop" /\ Len(dispatched) < MaxCalls
    /\ dispatched' = Append(dispatched, broker)
    /\ UNCHANGED run_adapter
    /\ UNCHANGED orchVars
    /\ UNCHANGED <<execVars, autoVars, logVars, normVars, iterVars, chatVars>>

\* call_ai_with_tools returns and chat answers
ChatEnd ==
    /\ pc = "loop"
    /\ pc' = "done"
    /\ UNCHANGED <<orchConfig, turn_count, messages, openai_messages, model_calls,
                   executed, next_id, retval, exc, last>>
    /\ UNCHANGED <<execVars, autoVars, sideVars>>

NextReinit ==
    \/ Initialize
    \/ ChatBegin
    \/ ChatToolCall
    \/ ChatEnd

SpecReinit == InitReinit /\ [][NextReinit]_vars

\* C16 as stated: every tool call of a run is dispatched to the adapter
\* that was active when the run started.
C16_AdapterFixedDuringRun ==
    \A i \in DOMAIN dispatched : dispatched[i] = run_adapter

----------------------------------------------------------------------------
(* Order of the venue requests of place_crypto_order *)

\* C17 as stated: the request that follows a set-leverage request on the
\* venue session is the order request of the same call.
C17_OrderFollowsSetLeverage ==
    ex_out.done =>
        \A i \in 1..(Len(ex_out.res.net) - 1) :
            ex_out.res.net[i].ep = "set_leverage" => ex_out.res.net[i + 1].ep = "order"

----------------------------------------------------------------------------
(* SpecNorm: normalize_symbol of the three adapters.  A symbol is the
   sequence of its characters. *)

MaxSymLen == 4

Chars == {"B", "u", "U", "S", "D", "T", "/", "-"}

AssetClasses == {"crypto", "crypto_futures", "stock"}

Symbols == UNION {[1..n -> Chars] : n \in 0..MaxSymLen}

\* str.upper(), character by character
UpperChar(c) == IF c = "u" THEN "U" ELSE c

upper(s) == [i \in 1..Len(s) |-> UpperChar(s[i])]

\* str.replace(c, '')
Remove(s, c) == SelectSeq(s, LAMBDA x : x # c)

\* str.endswith(suffix)
endswith(s, suffix) ==
    /\ Len(s) >= Len(suffix)
    /\ SubSeq(s, Len(s) - Len(suffix) + 1, Len(s)) = suffix

\* s[:-n]
DropLast(s, n) == SubSeq(s, 1, Len(s) - n)

Contains(s, c) == \E i \in 1..Len(s) : s[i] = c

USD == <<"U", "S", "D">>

USDT == <<"U", "S", "D", "T">>

alpaca_normalize_symbol(symbol, asset_class) ==
    IF asset_class = "crypto"
    THEN IF ~Contains(symbol, "/")
         THEN IF endswith(symbol, USD)
              THEN DropLast(symbol, 3) \o <<"/">> \o USD
              ELSE IF endswith(symbol, USDT)
                   THEN DropLast(symbol, 4) \o <<"/">> \o USD
                   ELSE symbol
         ELSE symbol
    ELSE symbol

BinanceSuffixAlwaysAppended(symbol, asset_class) ==
    IF asset_class \in {"crypto", "crypto_futures"}
    THEN LET s == upper(Remove(Remove(symbol, "/"), "-"))
         IN  IF endswith(s, USD) THEN DropLast(s, 3) \o USDT ELSE s \o USDT
    ELSE symbol

binance_normalize_symbol(symbol, asset_class) ==
    IF asset_class \in {"crypto", "crypto_futures"}
    THEN LET s == upper(Remove(Remove(symbol, "/"), "-"))
         IN  IF ~endswith(s, USDT)
             THEN IF endswith(s, USD) THEN DropLast(s, 3) \o USDT ELSE s \o USDT
             ELSE s
    ELSE symbol

bybit_normalize_symbol(symbol, asset_class) ==
    IF asset_class \in {"crypto", "crypto_futures"}
    THEN LET s1 == Remove(Remove(symbol, "/"), "-")
             s2 == IF ~endswith(s1, USDT) /\ ~endswith(s1, USD) THEN s1 \o USDT ELSE s1
         IN  IF endswith(s2, USD) /\ ~endswith(s2, USDT) THEN DropLast(s2, 3) \o USDT ELSE s2
    ELSE symbol

normalize_symbol(brk, symbol, asset_class) ==
    CASE brk = "Alpaca"  -> alpaca_normalize_symbol(symbol, asset_class)
      [] brk = "Binance" -> binance_normalize_symbol(symbol, asset_class)
      [] brk = "Bybit"   -> bybit_normalize_symbol(symbol, asset_class)

InitNorm ==
    /\ sym_in \in [brk : Brokers, asset_class : AssetClasses, symbol : Symbols]
    /\ sym_out = [done |-> FALSE, once |-> None, twice |-> None]
    /\ OrchIdle /\ ExecIdle /\ AutoIdle /\ LogIdle /\ ReinitIdle /\ IterIdle /\ ChatIdle

\* normalize_symbol(s, a)
NormalizeFirst ==
    /\ IsNone(sym_out.once)
    /\ sym_out' = [sym_out EXCEPT
                     !.once = Some(normalize_symbol(sym_in.brk, sym_in.symbol, sym_in.asset_class))]
    /\ UNCHANGED <<sym_in, execVars, orchVars, autoVars, logVars, reinitVars, iterVars, chatVars>>

\* normalize_symbol(normalize_symbol(s, a), a)
NormalizeAgain ==
    /\ ~IsNone(sym_out.once)
    /\ ~sym_out.done
    /\ sym_out' = [sym_out EXCEPT
                     !.twice = Some(normalize_symbol(sym_in.brk, Val(sym_out.once), sym_in.asset_class)),
                     !.done = TRUE]
    /\ UNCHANGED <<sym_in, execVars, orchVars, autoVars, logVars, reinitVars, iterVars, chatVars>>

NextNorm == NormalizeFirst \/ NormalizeAgain

SpecNorm == InitNorm /\ [][NextNorm]_vars

\* C18: normalizing an already normalized symbol returns it unchanged, for
\* every adapter, symbol and asset class.
C18_NormalizeIdempotent == sym_out.done => sym_out.twice = sym_out.once

\* A Binance symbol that the first normalization rewrote, normalized twice.
C18_Witness ==
    /\ sym_out.done
    /\ sym_in.brk = "Binance"
    /\ sym_in.asset_class = "crypto"
    /\ sym_in.symbol = <<"B", "/", "u", "S">>
    /\ Val(sym_out.once) = <<"B", "U", "S", "U", "S", "D", "T">>

----------------------------------------------------------------------------
(* Error results of the Tool Executor *)

\* C21: on an adapter without crypto leverage (ceiling 1, as Alpaca), a
\* place_crypto_order call with leverage above 1 returns the "doesn't
\* support leverage" error and the adapter's order method is not invoked.
C21_NoLeverageSupport ==
    ( /\ IsCryptoOrderCall
      /\ ~supports_crypto_leverage(ex_in.brk) /\ Ceiling = 1
      /\ RequestedLeverage > 1 )
    => ( /\ ex_out.res.error /\ ex_out.res.msg = "no_leverage_support"
         /\ ex_out.res.adapter = <<>> /\ ex_out.res.net = <<>> )

\* A 10x crypto order on Alpaca, with all required arguments, was refused.
C21_Witness ==
    /\ IsCryptoOrderCall
    /\ ex_in.brk = "Alpaca" /\ RequestedLeverage = 10 /\ ex_in.args.has_req
    /\ ex_out.res.error /\ ex_out.res.msg = "no_leverage_support"
    /\ ex_out.res.adapter = <<>>

\* C22 as stated: in every state of the server, a tool name outside the
\* registry gets the unknown-tool error and no adapter operation is invoked.
C22_UnknownToolError ==
    ( /\ ex_out.done
      /\ ex_in.server = "multi"
      /\ ex_in.tool \notin TOOLS )
    => ( /\ ex_out.res.error /\ ex_out.res.msg = "unknown_tool"
         /\ ex_out.res.adapter = <<>> )

----------------------------------------------------------------------------
(* SpecFactory: BrokerFactory.create_broker (brokers/factory.py).  ex_in is
   the call, ex_out its outcome.  An identifier is a word with or without
   upper-case letters, between lead and trail blanks. *)

MaxPad == 1

SUPPORTED_BROKERS == {"alpaca", "bybit", "binance"}

Identifiers ==
    [word : BrokerTypes \cup {""}, caps : BOOLEAN, lead : 0..MaxPad, trail : 0..MaxPad]

\* The identifier is, character for character, a key of SUPPORTED_BROKERS.
IsRegisteredKey(id) ==
    id.word \in SUPPORTED_BROKERS /\ ~id.caps /\ id.lead = 0 /\ id.trail = 0

\* A plausible slip: the identifier is stripped but not lower-cased.
StripOnly(id) == [id EXCEPT !.lead = 0, !.trail = 0]

\* broker_type.lower().strip()
LowerStrip(id) == [id EXCEPT !.caps = FALSE, !.lead = 0, !.trail = 0]

\* create_broker: built is the sequence of adapter classes constructed.
FactoryCreate(id) ==
    LET broker_type == LowerStrip(id)
    IN  IF ~IsRegisteredKey(broker_type)
        THEN [out |-> "ValueError", listed |-> SUPPORTED_BROKERS, built |-> <<>>,
              returned |-> "None"]
        ELSE [out |-> "ok", listed |-> {}, built |-> <<create_broker(broker_type.word)>>,
              returned |-> create_broker(broker_type.word)]

InitFactory ==
    /\ ex_in \in [id : Identifiers, paper_mode : BOOLEAN]
    /\ ex_out = [done |-> FALSE, res |-> EmptyResult]
    /\ OrchIdle
    /\ AutoIdle
    /\ SideIdle

FactoryCall ==
    /\ ~ex_out.done
    /\ ex_out' = [done |-> TRUE, res |-> FactoryCreate(ex_in.id)]
    /\ UNCHANGED <<ex_in, orchVars, autoVars, sideVars>>

SpecFactory == InitFactory /\ [][FactoryCall]_vars

\* The adapter class registered under a key.
RegisteredClass(word) ==
    CASE word = "alpaca" -> "Alpaca" [] word = "bybit" -> "Bybit" [] word = "binance" -> "Binance"

\* C23 as stated: an identifier that is not a registered key fails with an
\* error listing every valid identifier and constructs nothing; a registered
\* key returns an instance of the class registered under it.
C23_Original ==
    ex_out.done =>
        /\ ~IsRegisteredKey(ex_in.id) =>
              ( /\ ex_out.res.out = "ValueError"
                /\ ex_out.res.listed = SUPPORTED_BROKERS
                /\ ex_out.res.built = <<>> )
        /\ IsRegisteredKey(ex_in.id) =>
              ( /\ ex_out.res.out = "ok"
                /\ ex_out.res.returned = RegisteredClass(ex_in.id.word)
                /\ ex_out.res.built = <<RegisteredClass(ex_in.id.word)>> )

\* C23 amended: the identifier is compared after lower-casing and stripping.
\* If that form is not a registered key the call fails with an error listing
\* every valid identifier and constructs nothing; otherwise it returns an
\* instance of exactly the class registered under that form.
C23_CreateBroker ==
    ex_out.done =>
        /\ ex_in.id.word \notin SUPPORTED_BROKERS =>
              ( /\ ex_out.res.out = "ValueError"
                /\ ex_out.res.listed = SUPPORTED_BROKERS
                /\ ex_out.res.built = <<>> )
        /\ ex_in.id.word \in SUPPORTED_BROKERS =>
              ( /\ ex_out.res.out = "ok"
                /\ ex_out.res.returned = RegisteredClass(ex_in.id.word)
                /\ ex_out.res.built = <<RegisteredClass(ex_in.id.word)>> )

\* ' BYBIT' (upper case, one leading blank) produced a Bybit adapter.
C23_Witness ==
    /\ ex_out.done
    /\ ex_in.id = [word |-> "bybit", caps |-> TRUE, lead |-> 1, trail |-> 0]
    /\ ex_out.res.out = "ok" /\ ex_out.res.returned = "Bybit"

----------------------------------------------------------------------------
(* Operations a venue does not offer *)

StockOnlyMethods == {"place_stock_order", "get_stock_quote"}

\* C24: place_stock_order or get_stock_quote invoked on Binance or Bybit
\* fails with the not-supported error before any venue request, and
\* execute_tool returns the "<broker> doesn't support this feature" error,
\* not the generic one.
C24_NotSupportedIsSpecific ==
    ( /\ ex_out.done
      /\ ex_in.server = "multi" /\ ex_in.brk \in {"Binance", "Bybit"}
      /\ \E m \in StockOnlyMethods : ex_out.res.adapter = <<Inv(m, 0)>> )
    => ( /\ ExecBody.out = "notimpl"
         /\ ex_out.res.net = <<>>
         /\ ex_out.res.error /\ ex_out.res.msg = "unsupported_feature"
         /\ ~ex_out.res.raised )

\* get_stock_quote was dispatched to the Binance adapter and refused.
C24_Witness ==
    /\ ex_out.done
    /\ ex_in.server = "multi" /\ ex_in.brk = "Binance" /\ ex_in.tool = "get_stock_quote"
    /\ ex_out.res.adapter = <<Inv("get_stock_quote", 0)>>
    /\ ex_out.res.msg = "unsupported_feature" /\ ex_out.res.net = <<>>

----------------------------------------------------------------------------
(* SpecIter: one iteration of autotrading_loop, from the top of the loop
   body to the return of its time.sleep.  iter.env holds what the venue
   and the start request supply; amounts are 0 or 1 (zero or not). *)

\* An account snapshot; the venue reports portfolio_value equal to equity.
\* ok is FALSE when the fetch fails.
Accounts == [ok : {TRUE}, cash : 0..1, equity : 0..1, buying_power : 0..1]
FailedAccount == [ok |-> FALSE, cash |-> 0, equity |-> 0, buying_power |-> 0]

\* The positions list: its length, or a failed fetch.
Positions == [ok : {TRUE}, n : 0..1]
FailedPositions == [ok |-> FALSE, n |-> 0]

IterEnvs(server) ==
    [impl : {server},
     client : IF server = "multi" THEN BOOLEAN ELSE {TRUE},
     clock : IF server = "multi" THEN {"ok"} ELSE {"ok", "error"},
     account : Accounts \cup {FailedAccount},
     positions : Positions \cup {FailedPositions},
     config : Opt(Intervals)]

InitIter ==
    /\ \E server \in {"multi", "alpaca"} : \E env \in IterEnvs(server) :
          iter = [NoIter EXCEPT !.at = "top", !.env = env]
    /\ OrchIdle /\ ExecIdle /\ AutoIdle /\ LogIdle /\ ReinitIdle /\ NormIdle /\ ChatIdle

IterUnchanged == UNCHANGED <<execVars, orchVars, autoVars, logVars, reinitVars, normVars, chatVars>>

\* config.get(key, 60)
IntervalOf(config) == IF IsNone(config) THEN 60 ELSE Val(config)

\* multi-broker server: broker.get_account(), broker.get_positions(); either
\* raising goes to the except clause.
IterFetchMulti ==
    /\ iter.at = "top" /\ iter.env.impl = "multi"
    /\ iter' = IF ~iter.env.account.ok \/ ~iter.env.positions.ok
               THEN [iter EXCEPT !.at = "except"]
               ELSE [iter EXCEPT !.at = "model", !.logs = Append(@, "analyzing")]
    /\ IterUnchanged

\* The $0 test of the alpaca server.
Unfunded(account, positions) ==
    account.equity = 0 /\ account.cash = 0 /\ account.buying_power = 0 /\ positions = 0

\* alpaca server: the empty-configuration test, the three execute_tool calls
\* and the tests of their results.
IterFetchAlpaca ==
    /\ iter.at = "top" /\ iter.env.impl = "alpaca"
    /\ LET env == iter.env
           l1 == <<"analyzing">> \o (IF env.clock = "error" THEN <<"clock_failed">> ELSE <<>>)
           positions == IF ~env.positions.ok THEN 0 ELSE env.positions.n
           l2 == l1 \o (IF ~env.positions.ok THEN <<"positions_failed">> ELSE <<>>)
       IN  iter' =
             IF IsNone(env.config)
             THEN [iter EXCEPT !.at = "sleep", !.slept = 5]
             ELSE IF ~env.account.ok
             THEN [iter EXCEPT !.at = "sleep", !.slept = IntervalOf(env.config),
                               !.logs = l1 \o <<"account_failed", "skip_cycle">>]
             ELSE IF Unfunded(env.account, positions)
             THEN [iter EXCEPT !.at = "sleep", !.slept = IntervalOf(env.config),
                               !.logs = l2 \o <<"unfunded_warning">>]
             ELSE [iter EXCEPT !.at = "model", !.logs = l2]
    /\ IterUnchanged

\* call_ai_with_tools: without a configured client the multi-broker server
\* returns a fixed string; otherwise the model is called, its run may execute
\* an order tool, and it returns or raises.
IterModel ==
    /\ iter.at = "model"
    /\ IF ~iter.env.client
       THEN iter' = [iter EXCEPT !.at = "sleep", !.slept = IntervalOf(iter.env.config),
                                 !.logs = Append(@, "ai_response")]
       ELSE \E orders \in 0..1, raised \in BOOLEAN :
              iter' = IF raised
                      THEN [iter EXCEPT !.at = "except", !.model_called = TRUE, !.orders = orders]
                      ELSE [iter EXCEPT !.at = "sleep", !.model_called = TRUE, !.orders = orders,
                                        !.slept = IntervalOf(iter.env.config),
                                        !.logs = Append(@, "ai_response")]
    /\ IterUnchanged

\* except Exception: log the error, time.sleep(60) (multi) or 30 (alpaca)
IterExcept ==
    /\ iter.at = "except"
    /\ iter' = [iter EXCEPT !.at = "sleep", !.logs = Append(@, "error"),
                            !.slept = IF iter.env.impl = "multi" THEN 60 ELSE 30]
    /\ IterUnchanged

\* time.sleep returns: back to the loop test
IterWake ==
    /\ iter.at = "sleep"
    /\ iter' = [iter EXCEPT !.at = "check"]
    /\ IterUnchanged

NextIter == IterFetchMulti \/ IterFetchAlpaca \/ IterModel \/ IterExcept \/ IterWake

SpecIter == InitIter /\ [][NextIter]_vars

\* C25 as stated: in an iteration whose account reports cash 0, equity 0 and
\* buying power 0 with no positions, the unfunded-account warning is logged,
\* the model is not called and no order tool is executed.
C25_UnfundedSkipsTrading ==
    ( /\ iter.at = "check"
      /\ iter.env.account.ok /\ iter.env.positions.ok /\ iter.env.positions.n = 0
      /\ iter.env.account.cash = 0 /\ iter.env.account.equity = 0
      /\ iter.env.account.buying_power = 0
      /\ ~IsNone(iter.env.config) )
    => ( /\ \E i \in DOMAIN iter.logs : iter.logs[i] = "unfunded_warning"
         /\ ~iter.model_called
         /\ iter.orders = 0 )

\* C26 as stated: when fetching the account or the positions fails, the
\* failure is logged, the model is not called in that iteration, and the
\* worker sleeps a bounded time and returns to the loop test.
C26_FetchFailureSkipsModel ==
    ( /\ iter.at = "check"
      /\ (~iter.env.account.ok \/ ~iter.env.positions.ok)
      /\ ~IsNone(iter.env.config) )
    => ( /\ \E i \in DOMAIN iter.logs :
               iter.logs[i] \in {"account_failed", "positions_failed", "error"}
         /\ ~iter.model_called
         /\ iter.slept \in 1..60 )

----------------------------------------------------------------------------
(* The configuration of a run *)

\* C27 as stated: autotrading_config is replaced only while no worker is
\* inside an iteration.
C27_ConfigStableDuringIteration ==
    [][autotrading_config' # autotrading_config =>
          \A w \in 1..Len(workers) : workers[w] \notin {"run", "except"}]_vars

----------------------------------------------------------------------------
(* SpecTools: convert_tools_to_openai_format.  ex_in.tools is the TOOLS list,
   ex_out.res the list returned and the TOOLS list after the call. *)

MaxTools == 2

\* A tool definition of the registry: name, description, input_schema.
ToolDefs ==
    [name : {"get_account", "close_position"},
     description : {"Get account information", "Close a position"},
     input_schema : [type : {"object"}, required : {<<>>, <<"symbol">>}]]

ToolLists == UNION {[1..n -> ToolDefs] : n \in 0..MaxTools}

\* A plausible slip: an empty schema is passed in place of the tool's
\* input_schema.
OpenAIToolNoSchema(tool) ==
    [type |-> "function",
     function |-> [name |-> tool.name, description |-> tool.description,
                   parameters |-> [type |-> "object", required |-> <<>>]]]

\* The entry appended for one tool.
OpenAITool(tool) ==
    [type |-> "function",
     function |-> [name |-> tool.name, description |-> tool.description,
                   parameters |-> tool.input_schema]]

\* for tool in TOOLS: openai_tools.append(...)
convert_tools_to_openai_format(tools) == [i \in 1..Len(tools) |-> OpenAITool(tools[i])]

InitTools ==
    /\ ex_in \in [tools : ToolLists]
    /\ ex_out = [done |-> FALSE, res |-> EmptyResult]
    /\ OrchIdle
    /\ AutoIdle
    /\ SideIdle

ConvertCall ==
    /\ ~ex_out.done
    /\ ex_out' = [done |-> TRUE,
                  res |-> [openai_tools |-> convert_tools_to_openai_format(ex_in.tools),
                           tools_after |-> ex_in.tools]]
    /\ UNCHANGED <<ex_in, orchVars, autoVars, sideVars>>

SpecTools == InitTools /\ [][ConvertCall]_vars

\* Reading an entry of the Protocol B list back as a tool definition.
DecodeOpenAITool(e) ==
    [name |-> e.function.name, description |-> e.function.description,
     input_schema |-> e.function.parameters]

\* C28: the list returned has the length and order of TOOLS, entry i is
\* {type: 'function', function: {name, description, parameters}} with the
\* name, description and input_schema of TOOLS[i], decoding it yields the
\* tool definitions again, and TOOLS is unmodified.
C28_ToolSchemaRoundTrip ==
    ex_out.done =>
        LET out == ex_out.res.openai_tools
        IN  /\ Len(out) = Len(ex_in.tools)
            /\ \A i \in 1..Len(out) :
                  /\ DOMAIN out[i] = {"type", "function"}
                  /\ out[i].type = "function"
                  /\ DOMAIN out[i].function = {"name", "description", "parameters"}
                  /\ out[i].function.name = ex_in.tools[i].name
                  /\ out[i].function.description = ex_in.tools[i].description
                  /\ out[i].function.parameters = ex_in.tools[i].input_schema
            /\ [i \in 1..Len(out) |-> DecodeOpenAITool(out[i])] = ex_in.tools
            /\ ex_out.res.tools_after = ex_in.tools

\* Two different tools, the second with a required parameter, were converted.
C28_Witness ==
    /\ ex_out.done
    /\ Len(ex_in.tools) = 2
    /\ ex_in.tools[1].name = "get_account" /\ ex_in.tools[2].name = "close_position"
    /\ ex_in.tools[2].input_schema.required = <<"symbol">>
    /\ ex_out.res.openai_tools[2].function.parameters.required = <<"symbol">>

----------------------------------------------------------------------------
(* The two backends on the same model decision *)

\* C29 as stated, for the tool calls of a response: executed under Protocol A
\* and under Protocol B, the same calls give the same execute_tool
\* invocations, in the same order, and the same result content for each call.
C29_BackendsAgree ==
    ( /\ last.seen /\ last.calls # <<>>
      /\ \A i \in 1..Len(last.calls) : last.calls[i].kind \in CallKindsA )
    => LET a == RunCalls(impl, "claude", broker, FALSE, last.calls, NoneRun)
           b == RunCalls(impl, "deepseek", broker, TRUE, last.calls, NoneRun)
       IN  a.executed = b.executed /\ a.results = b.results

----------------------------------------------------------------------------
(* SpecChat: the interactive conversation history over chat requests.
   messages is conversation_history, the list handed to call_ai_with_tools;
   a message is its kind.  retval is the answer of the latest request. *)

HISTORY_CAP == 20
HISTORY_TAIL == 19

MaxChats == 3

\* A history left by earlier chat requests: the broker context first on the
\* multi-broker server, then requests and answers in turn.
Prefill(server, k) ==
    [i \in 1..k |->
        IF server = "multi" /\ i = 1 THEN "context"
        ELSE IF (i % 2 = 0) = (server = "multi") THEN "user" ELSE "assistant"]

InitChat ==
    /\ impl \in {"multi", "alpaca"}
    /\ broker = IF impl = "multi" THEN "Binance" ELSE "Alpaca"
    /\ \E c \in Configs(impl) :
          ai_model = c[1] /\ anthropic_client = c[2] /\ openai_client = c[3]
    /\ \E k \in {0, HISTORY_CAP - 3, HISTORY_CAP - 1, HISTORY_CAP} :
          messages = Prefill(impl, k)
    /\ max_turns = 0 /\ turn_count = 0 /\ openai_messages = <<>>
    /\ model_calls = 0 /\ executed = <<>> /\ next_id = 1
    /\ pc = "idle" /\ retval = "-" /\ exc = "none" /\ last = NoTurn
    /\ ExecIdle /\ AutoIdle /\ LogIdle /\ ReinitIdle /\ NormIdle /\ IterIdle /\ ChatIdle

\* The messages a run of call_ai_with_tools appends to the list it is given:
\* nothing, or the assistant message and the tool results of a tool round.
\* The alpaca server's DeepSeek loop works on a converted copy.
RunAppends ==
    IF impl = "alpaca" /\ ai_model = "deepseek" THEN {<<>>}
    ELSE IF impl = "multi" /\ ~ModelClientConfigured THEN {<<>>}
    ELSE {<<>>, <<"assistant_calls", "tool_results">>}

\* if len(conversation_history) > 20: [history[0]] + history[-19:]
Trim(h) ==
    IF Len(h) > HISTORY_CAP
    THEN <<h[1]>> \o SubSeq(h, Len(h) - HISTORY_TAIL + 1, Len(h))
    ELSE h

\* chat of the multi-broker server: one request, to its answer
ChatMulti ==
    /\ impl = "multi"
    /\ chats_served < MaxChats
    /\ chats_served' = chats_served + 1
    /\ \E run \in RunAppends, raised \in BOOLEAN :
        LET h1 == IF messages = <<>> THEN <<"context">> ELSE messages
            h2 == Append(h1, "user") \o run
        IN  /\ raised => ModelClientConfigured
            /\ IF raised
               THEN messages' = h2 /\ retval' = "error_500"
               ELSE messages' = Trim(Append(h2, "assistant")) /\ retval' = "response"
    /\ UNCHANGED <<orchConfig, turn_count, openai_messages, model_calls, executed, next_id,
                   pc, exc, last>>
    /\ UNCHANGED <<execVars, autoVars, logVars, reinitVars, normVars, iterVars>>

\* chat of the alpaca server: one request, to its answer
ChatAlpaca ==
    /\ impl = "alpaca"
    /\ chats_served < MaxChats
    /\ chats_served' = chats_served + 1
    /\ \E run \in RunAppends, raised \in BOOLEAN :
        LET h2 == Append(messages, "user") \o run
        IN  IF raised
            THEN messages' = h2 /\ retval' = "error_500"
            ELSE /\ messages' = IF ai_model = "claude" THEN Append(h2, "assistant") ELSE h2
                 /\ retval' = "response"
    /\ UNCHANGED <<orchConfig, turn_count, openai_messages, model_calls, executed, next_id,
                   pc, exc, last>>
    /\ UNCHANGED <<execVars, autoVars, logVars, reinitVars, normVars, iterVars>>

NextChat == ChatMulti \/ ChatAlpaca

SpecChat == InitChat /\ [][NextChat]_vars

\* C30 as stated: after every completed chat request the history holds at
\* most 20 messages and its first message is the broker-context message.
C30_HistoryCapped ==
    chats_served > 0 => (Len(messages) <= HISTORY_CAP /\ messages[1] = "context")

----------------------------------------------------------------------------
(* Registry and dispatch *)

\* The registry of the server that serves the call.
Registry == IF ex_in.server = "multi" THEN TOOLS ELSE ALPACA_TOOLS

\* C35: with a broker initialized, a tool name declared in TOOLS never gets
\* the unknown-tool error, and its branch invokes at most one adapter
\* operation (none for the note-store tools).
C35_RegistryMatchesDispatch ==
    ( /\ ex_out.done
      /\ ex_in.brk # "None"
      /\ ex_in.tool \in Registry )
    => ( /\ ex_out.res.msg # "unknown_tool"
         /\ Len(ex_out.res.adapter) <= 1
         /\ ex_in.tool \in {"read_trading_memory", "write_trading_memory",
                            "append_trading_memory", "clear_trading_memory",
                            "edit_trading_memory_lines"}
               => ex_out.res.adapter = <<>> )

\* get_market_clock on Binance went to the adapter's get_market_status.
C35_Witness ==
    /\ ex_out.done
    /\ ex_in.server = "multi" /\ ex_in.brk = "Binance" /\ ex_in.tool = "get_market_clock"
    /\ ex_out.res.adapter = <<Inv("get_market_status", 0)>>
    /\ ~ex_out.res.error

----------------------------------------------------------------------------
(* SpecPositions: get_positions of the three adapters.  ex_in.raw is the
   venue's answer: amt is qty (Alpaca), positionAmt (Binance) or size
   (Bybit), side the venue's side field (read by Bybit only). *)

MaxPositions == 2

RawPositions == [amt : (-MaxQty)..MaxQty, side : {"Buy", "Sell", "None"}]

Side(long) == IF long THEN "long" ELSE "short"

\* A plausible slip: Bybit's size is passed on without the sign of the side.
PositionOfUnsigned(brk, p) ==
    IF brk = "Bybit" THEN [qty |-> p.amt, side |-> Side(p.side = "Buy")]
    ELSE [qty |-> p.amt, side |-> Side(p.amt > 0)]

\* The entry an adapter builds for one venue position.
PositionOf(brk, p) ==
    IF brk = "Bybit"
    THEN [qty |-> IF p.side = "Buy" THEN p.amt ELSE -p.amt, side |-> Side(p.side = "Buy")]
    ELSE [qty |-> p.amt, side |-> Side(p.amt > 0)]

\* Which venue positions an adapter lists: all (Alpaca), positionAmt != 0
\* (Binance), size > 0 (Bybit).
Listed(brk, p) ==
    CASE brk = "Alpaca"  -> TRUE
      [] brk = "Binance" -> p.amt # 0
      [] brk = "Bybit"   -> p.amt > 0

PositionsList(brk, raw) ==
    LET kept == SelectSeq(raw, LAMBDA p : Listed(brk, p))
    IN  [i \in 1..Len(kept) |-> PositionOf(brk, kept[i])]

InitPositions ==
    /\ ex_in \in [brk : Brokers, raw : UNION {[1..n -> RawPositions] : n \in 0..MaxPositions}]
    /\ ex_out = [done |-> FALSE, res |-> EmptyResult]
    /\ OrchIdle
    /\ AutoIdle
    /\ SideIdle

PositionsCall ==
    /\ ~ex_out.done
    /\ ex_out' = [done |-> TRUE, res |-> PositionsList(ex_in.brk, ex_in.raw)]
    /\ UNCHANGED <<ex_in, orchVars, autoVars, sideVars>>

SpecPositions == InitPositions /\ [][PositionsCall]_vars

\* C34: every position returned by get_positions has a side that agrees with
\* the sign of its quantity: qty > 0 gives 'long', qty < 0 gives 'short'.
C34_SideAgreesWithSign ==
    ex_out.done =>
        \A i \in 1..Len(ex_out.res) :
            /\ ex_out.res[i].qty > 0 => ex_out.res[i].side = "long"
            /\ ex_out.res[i].qty < 0 => ex_out.res[i].side = "short"

\* Bybit reported a Sell position of size 2; it is listed as short, qty -2.
C34_Witness ==
    /\ ex_out.done
    /\ ex_in.brk = "Bybit"
    /\ ex_in.raw = <<[amt |-> 2, side |-> "Sell"]>>
    /\ ex_out.res = <<[qty |-> -2, side |-> "short"]>>

----------------------------------------------------------------------------
(* SpecClose: place_crypto_order followed by close_position with the same
   user symbol, on the two futures venues.  sym_out.venue holds the symbols
   of the positions open at the venue; get_positions returns them as the
   venue spells them. *)

FuturesBrokers == {"Binance", "Bybit"}

InitClose ==
    /\ sym_in \in [brk : FuturesBrokers, asset_class : {"crypto"}, symbol : Symbols]
    /\ sym_out = [stage |-> "start", venue |-> {}, found |-> FALSE]
    /\ OrchIdle /\ ExecIdle /\ AutoIdle /\ LogIdle /\ ReinitIdle /\ IterIdle /\ ChatIdle

\* place_crypto_order(symbol, ...): the order is sent for the normalized
\* symbol, which opens the position under that name.
PlaceCryptoOrder ==
    /\ sym_out.stage = "start"
    /\ sym_out' = [sym_out EXCEPT
                     !.stage = "placed",
                     !.venue = {normalize_symbol(sym_in.brk, sym_in.symbol, "crypto")}]
    /\ UNCHANGED <<sym_in, execVars, orchVars, autoVars, logVars, reinitVars, iterVars, chatVars>>

\* close_position(symbol): next(p for p in positions if p['symbol'] == symbol)
ClosePositionLookup ==
    /\ sym_out.stage = "placed"
    /\ sym_out' = [sym_out EXCEPT
                     !.stage = "closed",
                     !.found = \E p \in sym_out.venue : p = sym_in.symbol]
    /\ UNCHANGED <<sym_in, execVars, orchVars, autoVars, logVars, reinitVars, iterVars, chatVars>>

NextClose == PlaceCryptoOrder \/ ClosePositionLookup

SpecClose == InitClose /\ [][NextClose]_vars

\* C38: after place_crypto_order opened a position with user symbol s,
\* close_position called with the same s finds that position.
C38_CloseFindsOpenedPosition == sym_out.stage = "closed" => sym_out.found

----------------------------------------------------------------------------
(* SpecTrim: chat requests of the multi-broker server on a history that
   already holds a tool round.  The histories of InitTrim are those chat
   leaves behind: the context, then possibly a request whose run raised,
   possibly a round with a tool call, then plain rounds. *)

PlainRounds(p) ==
    [i \in 1..(2 * p) |-> IF i % 2 = 1 THEN "user" ELSE "assistant"]

EarlierRounds ==
    {<<>>, <<"user">>, <<"user", "assistant_calls", "tool_results", "assistant">>,
     <<"user", "user", "assistant_calls", "tool_results", "assistant">>}

InitTrim ==
    /\ impl = "multi"
    /\ broker = "Binance"
    /\ \E c \in Configs(impl) :
          ai_model = c[1] /\ anthropic_client = c[2] /\ openai_client = c[3]
    /\ \E pre \in EarlierRounds, p \in 0..(HISTORY_CAP \div 2) :
          /\ messages = <<"context">> \o pre \o PlainRounds(p)
          /\ Len(messages) <= HISTORY_CAP
    /\ max_turns = 0 /\ turn_count = 0 /\ openai_messages = <<>>
    /\ model_calls = 0 /\ executed = <<>> /\ next_id = 1
    /\ pc = "idle" /\ retval = "-" /\ exc = "none" /\ last = NoTurn
    /\ ExecIdle /\ AutoIdle /\ LogIdle /\ ReinitIdle /\ NormIdle /\ IterIdle /\ ChatIdle

SpecTrim == InitTrim /\ [][ChatMulti]_vars

\* C36: after the truncation at the end of chat, no tool-result message is
\* kept without the assistant tool-call message before it, and no assistant
\* tool-call message without its results after it.
C36_TrimKeepsToolRoundsWhole ==
    retval = "response" =>
        \A i \in 1..Len(messages) :
            /\ messages[i] = "tool_results" => (i > 1 /\ messages[i - 1] = "assistant_calls")
            /\ messages[i] = "assistant_calls" =>
                   (i < Len(messages) /\ messages[i + 1] = "tool_results")

----------------------------------------------------------------------------
(* The history after an answered chat request *)

\* C39: when a chat request returns a response, the history ends with the
\* assistant's final reply, and the request's user message is in it once:
\* it is the last user message, after it come only messages of this run, and
\* before it only what the history held already (and the context message).
C39_HistoryEndsWithReply ==
    [][ (chats_served' = chats_served + 1 /\ retval' = "response") =>
            LET h == messages'
                n == Len(h)
            IN  /\ n > 0
                /\ h[n] = "assistant"
                /\ \E j \in 1..n :
                      /\ h[j] = "user"
                      /\ \A k \in (j + 1)..n : h[k] # "user"
                      /\ j - 1 <= Len(messages) + 1 ]_vars

----------------------------------------------------------------------------
(* SpecMcp: the chat endpoint of trading-mcp-client.py.  broker stands for
   mcp_session ("None" until connected), messages for conversation_history,
   last for the model response in hand.  model_calls and messages are kept
   up to MaxMcpCalls and MaxMcpHistory; past these the model stops counting,
   the handler goes on. *)

MaxMcpCalls == 4
MaxMcpHistory == 8

McpResponses == [stop : {"tool_use", "end_turn", "max_tokens"}, calls : 1..MaxCalls]

\* conversation_history.append(...), recorded up to MaxMcpHistory messages
McpAppend(h, ms) == IF Len(h) + Len(ms) <= MaxMcpHistory THEN h \o ms ELSE h

InitMcp ==
    /\ impl = "mcp"
    /\ broker \in {"None", "Alpaca"}
    /\ ai_model = "claude"
    /\ anthropic_client \in BOOLEAN
    /\ openai_client = FALSE
    /\ messages \in {<<>>, <<"user", "assistant">>,
                     <<"user", "assistant_calls", "tool_results", "assistant">>}
    /\ max_turns = 0 /\ turn_count = 0 /\ openai_messages = <<>>
    /\ model_calls = 0 /\ executed = <<>> /\ next_id = 1
    /\ pc = "idle" /\ retval = "-" /\ exc = "none" /\ last = NoTurn
    /\ ExecIdle /\ AutoIdle /\ SideIdle

\* chat up to the first anthropic_client.messages.create
McpChatBegin ==
    /\ pc = "idle"
    /\ \E has_message \in BOOLEAN, raised \in BOOLEAN, r \in McpResponses :
        IF ~has_message \/ ~anthropic_client \/ broker = "None"
        THEN /\ pc' = "done" /\ retval' = "error_400"
             /\ UNCHANGED <<messages, model_calls, last>>
        ELSE /\ messages' = McpAppend(messages, <<"user">>)
             /\ model_calls' = 1
             /\ IF raised
                THEN pc' = "done" /\ retval' = "error_500" /\ UNCHANGED last
                ELSE pc' = "loop" /\ last' = r /\ UNCHANGED retval
    /\ UNCHANGED <<orchConfig, turn_count, openai_messages, executed, next_id, exc>>
    /\ UNCHANGED <<execVars, autoVars, sideVars>>

\* while response.stop_reason == "tool_use": ... ; then the final text
McpLoop ==
    /\ pc = "loop"
    /\ \E raised \in BOOLEAN, r \in McpResponses :
        IF last.stop = "tool_use"
        THEN /\ messages' = McpAppend(messages, <<"assistant_calls", "tool_results">>)
             /\ model_calls' = Min(model_calls + 1, MaxMcpCalls)
             /\ IF raised
                THEN pc' = "done" /\ retval' = "error_500" /\ UNCHANGED last
                ELSE pc' = "loop" /\ last' = r /\ UNCHANGED retval
        ELSE /\ messages' = McpAppend(messages, <<"assistant">>)
             /\ pc' = "done" /\ retval' = "response"
             /\ UNCHANGED <<model_calls, last>>
    /\ UNCHANGED <<orchConfig, turn_count, openai_messages, executed, next_id, exc>>
    /\ UNCHANGED <<execVars, autoVars, sideVars>>

NextMcp == McpChatBegin \/ McpLoop

SpecMcp == InitMcp /\ [][NextMcp]_vars

\* The request thread keeps running its handler.
SpecMcpFair == SpecMcp /\ WF_vars(McpChatBegin) /\ WF_vars(McpLoop)

\* C33: the tool-use loop of this chat endpoint stops, whatever the model
\* answers: a request that entered the loop is answered.
C33_McpChatStops == (pc = "loop") ~> (pc = "done")

----------------------------------------------------------------------------
(* SpecServer: a server from its start: initialize, health, chat with its
   guards, and calls of the Tool Executor.  retval is the answer of the
   latest request; the answers of initialize tell where it stopped. *)

InitFailures == {"init_400", "init_500_adapter", "init_500_data", "init_500_client"}

\* The broker types asked for: two supported ones and an unsupported one.
RequestedBrokerTypes == {"alpaca", "binance", "kraken"}

\* health_check: the body of the answer
health_check(brk) ==
    [status |-> "healthy", initialized |-> brk # "None"]

\* A plausible slip: chat never looks at the broker.
ChatRejectedNoBrokerTest(server, brk, has_message, model, anthropic, openai) ==
    IF server = "multi" THEN ~has_message
    ELSE \/ ~has_message
         \/ model = "deepseek" /\ ~openai
         \/ model = "claude" /\ ~anthropic

\* The tests of chat that answer 400 before the history is touched.
ChatRejected(server, brk, has_message, model, anthropic, openai) ==
    IF server = "multi" THEN brk = "None" \/ ~has_message
    ELSE \/ ~has_message
         \/ model = "deepseek" /\ ~openai
         \/ model = "claude" /\ ~anthropic
         \/ brk = "None"

InitServer ==
    /\ impl \in {"multi", "alpaca"}
    /\ broker = "None" /\ ai_model = "claude"
    /\ anthropic_client = FALSE /\ openai_client = FALSE
    /\ max_turns = 0 /\ turn_count = 0 /\ messages = <<>> /\ openai_messages = <<>>
    /\ model_calls = 0 /\ executed = <<>> /\ next_id = 1
    /\ pc = "idle" /\ retval = "-" /\ exc = "none" /\ last = NoTurn
    /\ ExecIdle /\ AutoIdle /\ SideIdle

\* initialize, the whole request.  raises_at is where a constructor raises:
\* the adapter (TradingClient), the data and news clients of the alpaca
\* server, or the AI client.  The multi-broker server builds an AI client
\* only when its key is given; the alpaca server always builds one.
initialize ==
    \E broker_type \in (IF impl = "multi" THEN RequestedBrokerTypes ELSE {"alpaca"}),
       broker_keys \in BOOLEAN,
       selected_model \in {"claude", "deepseek"}, ai_key \in BOOLEAN,
       raises_at \in (IF impl = "multi" THEN {"none", "adapter", "client"}
                      ELSE {"none", "adapter", "data", "client"}) :
        LET rejected == impl = "multi" /\ (create_broker(broker_type) = "None" \/ ~broker_keys)
            new_broker == IF impl = "multi" THEN create_broker(broker_type) ELSE "Alpaca"
            builds_client == impl = "alpaca" \/ ai_key
        IN  /\ CASE rejected ->
                      /\ retval' = "init_400"
                      /\ UNCHANGED <<broker, ai_model, anthropic_client, openai_client, messages>>
                 [] ~rejected /\ raises_at = "adapter" ->
                      /\ retval' = "init_500_adapter"
                      /\ UNCHANGED <<broker, ai_model, anthropic_client, openai_client, messages>>
                 [] ~rejected /\ raises_at = "data" /\ impl = "alpaca" ->
                      /\ retval' = "init_500_data"
                      /\ broker' = new_broker
                      /\ UNCHANGED <<ai_model, anthropic_client, openai_client, messages>>
                 [] ~rejected /\ raises_at = "client" /\ builds_client ->
                      /\ retval' = "init_500_client"
                      /\ broker' = new_broker
                      /\ ai_model' = selected_model
                      /\ UNCHANGED <<anthropic_client, openai_client, messages>>
                 [] OTHER ->
                      /\ retval' = "initialized"
                      /\ broker' = new_broker
                      /\ ai_model' = selected_model
                      /\ IF impl = "multi"
                         THEN /\ anthropic_client' =
                                    (anthropic_client \/ (selected_model = "claude" /\ ai_key))
                              /\ openai_client' =
                                    (openai_client \/ (selected_model = "deepseek" /\ ai_key))
                         ELSE /\ anthropic_client' = (selected_model # "deepseek")
                              /\ openai_client' = (selected_model = "deepseek")
                      /\ messages' = <<>>
            /\ UNCHANGED <<impl, max_turns, turn_count, openai_messages, model_calls,
                           executed, next_id, pc, exc, last>>
            /\ UNCHANGED <<execVars, autoVars, sideVars>>

\* chat, the whole request: its tests, then the body
chat ==
    \E has_message \in BOOLEAN :
        IF ChatRejected(impl, broker, has_message, ai_model, anthropic_client, openai_client)
        THEN /\ chats_served < MaxChats
             /\ chats_served' = chats_served + 1
             /\ retval' = "error_400"
             /\ UNCHANGED <<orchConfig, turn_count, messages, openai_messages, model_calls,
                            executed, next_id, pc, exc, last>>
             /\ UNCHANGED <<execVars, autoVars, logVars, reinitVars, normVars, iterVars>>
        ELSE ChatMulti \/ ChatAlpaca

\* A call of execute_tool.  On the alpaca server every caller tests
\* trading_client first; execute_tool of the multi-broker server tests the
\* broker itself.
ToolCall ==
    \E tool \in {"get_account", "read_trading_memory"} :
        /\ impl = "alpaca" => broker # "None"
        /\ ex_in' = [server |-> impl, brk |-> broker, tool |-> tool,
                     args |-> NoArgs, env |-> NoEnv]
        /\ ex_out' = [done |-> TRUE, res |-> ExecuteTool(impl, broker, tool, NoArgs, NoEnv)]
        /\ UNCHANGED <<orchVars, autoVars, sideVars>>

NextServer == initialize \/ chat \/ ToolCall

SpecServer == InitServer /\ [][NextServer]_vars

\* C37: an initialize request that fails leaves the active broker, the AI
\* model selection, both AI clients and the conversation history as they
\* were before the request.
C37_FailedInitializeChangesNothing ==
    [][ retval' \in InitFailures =>
            UNCHANGED <<broker, ai_model, anthropic_client, openai_client, messages>> ]_vars


----------------------------------------------------------------------------
(* SpecAudit: the model call of autotrading iterations and the audit log.
   iter.conversation is the list the loop hands to call_ai_with_tools
   (messages on the multi-broker server, conversation on the alpaca server);
   each of its messages carries the number of the iteration that made it.
   executed holds the tool invocations, a log entry names the invocation it
   reports.  messages is the interactive conversation_history. *)

MaxIterations == 2

\* add_autotrading_log for each of the entries, in turn
AuditLog(log, entries) == LastEntries(log \o entries, LOG_CAPACITY)

\* A plausible slip: the list is built once and every iteration adds to it.
ReusedConversation(previous, n) == Append(previous, [kind |-> "prompt", it |-> n])

\* The list an iteration builds for its model call.
FreshConversation(previous, n) == <<[kind |-> "prompt", it |-> n]>>

InitAudit ==
    /\ impl \in {"multi", "alpaca"}
    /\ broker = IF impl = "multi" THEN "Binance" ELSE "Alpaca"
    /\ ai_model \in {"claude", "deepseek"}
    /\ anthropic_client = (ai_model = "claude") /\ openai_client = (ai_model = "deepseek")
    /\ messages \in {<<>>, <<"user", "assistant">>}
    /\ max_turns = 0 /\ turn_count = 0 /\ openai_messages = <<>>
    /\ model_calls = 0 /\ executed = <<>> /\ next_id = 1
    /\ pc = "idle" /\ retval = "-" /\ exc = "none" /\ last = NoTurn
    /\ autotrading_active = TRUE /\ autotrading_config = 0
    /\ workers = <<>> /\ handlers = <<>>
    /\ iter = [at |-> "top", n |-> 0, rounds |-> 0, responses |-> 0, conversation |-> <<>>]
    /\ ExecIdle /\ LogIdle /\ ReinitIdle /\ NormIdle /\ ChatIdle

AuditFrame ==
    /\ UNCHANGED <<orchConfig, turn_count, messages, openai_messages, model_calls, next_id,
                   pc, retval, exc, last>>
    /\ UNCHANGED <<autotrading_config, workers, handlers, writers, appended, read_len>>
    /\ UNCHANGED <<execVars, reinitVars, normVars, chatVars>>

\* stop_autotrading
AuditStop ==
    /\ autotrading_active
    /\ autotrading_active' = FALSE
    /\ autotrading_logs' = AuditLog(autotrading_logs, <<[kind |-> "stop", ref |-> 0]>>)
    /\ UNCHANGED <<executed, iter>>
    /\ AuditFrame

\* while autotrading_active: ... up to the call of call_ai_with_tools
AuditBuild ==
    /\ iter.at = "top"
    /\ IF autotrading_active /\ iter.n < MaxIterations
       THEN /\ iter' = [iter EXCEPT !.at = "model", !.n = @ + 1, !.rounds = 0,
                          !.conversation = FreshConversation(iter.conversation, iter.n + 1)]
            /\ autotrading_logs' = AuditLog(autotrading_logs, <<[kind |-> "analyzing", ref |-> 0]>>)
       ELSE /\ iter' = [iter EXCEPT !.at = "ended"]
            /\ autotrading_logs' = AuditLog(autotrading_logs, <<[kind |-> "ended", ref |-> 0]>>)
    /\ UNCHANGED <<autotrading_active, executed>>
    /\ AuditFrame

\* One tool invocation of the run: execute_tool, the messages of the round,
\* and, on the alpaca server while autotrading_active, its two log entries.
AuditToolCall ==
    /\ iter.at = "model" /\ iter.rounds < MaxCalls
    /\ executed' = Append(executed, [tool |-> "get_account", it |-> iter.n])
    /\ iter' = [iter EXCEPT
                  !.rounds = @ + 1,
                  !.conversation =
                      IF impl = "alpaca" /\ ai_model = "deepseek" THEN @
                      ELSE @ \o <<[kind |-> "assistant_calls", it |-> iter.n],
                                  [kind |-> "tool_results", it |-> iter.n]>>]
    /\ autotrading_logs' =
          IF impl = "alpaca" /\ autotrading_active
          THEN AuditLog(autotrading_logs, <<[kind |-> "tool", ref |-> Len(executed) + 1],
                                            [kind |-> "result", ref |-> Len(executed) + 1]>>)
          ELSE autotrading_logs
    /\ UNCHANGED autotrading_active
    /\ AuditFrame

\* call_ai_with_tools returns the final text, or raises; the loop logs it
\* and sleeps.
AuditFinal ==
    /\ iter.at = "model"
    /\ \E raised \in BOOLEAN :
        IF raised
        THEN /\ iter' = [iter EXCEPT !.at = "top"]
             /\ autotrading_logs' = AuditLog(autotrading_logs, <<[kind |-> "error", ref |-> 0]>>)
        ELSE /\ iter' = [iter EXCEPT
                           !.at = "top", !.responses = @ + 1,
                           !.conversation =
                               IF impl = "alpaca" /\ ai_model = "claude"
                               THEN Append(@, [kind |-> "assistant", it |-> iter.n])
                               ELSE @]
             /\ autotrading_logs' =
                   AuditLog(autotrading_logs, <<[kind |-> "ai_response", ref |-> 0]>>)
    /\ UNCHANGED <<autotrading_active, executed>>
    /\ AuditFrame

NextAudit == AuditStop \/ AuditBuild \/ AuditToolCall \/ AuditFinal

SpecAudit == InitAudit /\ [][NextAudit]_vars

\* C31: once an iteration is over, every tool invocation executed in it and
\* its result are in the audit log, and so is the final text of every
\* iteration that got one; also when stop was requested meanwhile.
C31_IterationFullyLogged ==
    iter.at \in {"top", "ended"} =>
        /\ \A i \in DOMAIN executed :
              \E j, k \in DOMAIN autotrading_logs :
                  /\ j < k
                  /\ autotrading_logs[j] = [kind |-> "tool", ref |-> i]
                  /\ autotrading_logs[k] = [kind |-> "result", ref |-> i]
        /\ Cardinality({j \in DOMAIN autotrading_logs :
                            autotrading_logs[j].kind = "ai_response"}) = iter.responses

\* C32: an iteration step never changes conversation_history, and the list
\* handed to the model holds only messages of the current iteration.
C32_FreshConversationEachIteration ==
    [][ /\ messages' = messages
        /\ iter'.at = "model" =>
              \A i \in DOMAIN iter'.conversation : iter'.conversation[i].it = iter'.n ]_vars

\* The second iteration is at its model call after a tool round; its list
\* holds the prompt and that round, the chat history is as it was.
C32_Witness ==
    /\ iter.at = "model" /\ iter.n = 2 /\ iter.rounds = 1
    /\ impl = "multi"
    /\ Len(iter.conversation) = 3
    /\ \A i \in DOMAIN iter.conversation : iter.conversation[i].it = 2
    /\ messages = <<"user", "assistant">>
    /\ Len(executed) > 1

====
